---- MODULE Spec2Model ----
(***************************************************************************)
(* Model of the bridge worker's listener loop (bridge-core Listener::sync) *)
(* instantiated with the ethereum SyncCheckpoint, together with the        *)
(* checkpoint repository it writes to, the fetcher and relayer it calls    *)
(* and process kills / restarts.                                           *)
(***************************************************************************)
EXTENDS Integers, Sequences, FiniteSets, TLC

(* ------------------------------ bounds -------------------------------- *)
\* highest block number the source chain reaches
MaxBlock == 1
\* largest number of pay-in events in one block
MaxEvents == 2

\* largest number of listeners in a configuration
MaxListeners == 2
\* largest number of relayers in a configuration
MaxRelayers == 2

\* largest transaction / log index of a checkpoint that is compared
MaxIndex == 1
\* listener threads sharing one substrate relayer
MaxThreads == 2

(* -------------------------- program constants ------------------------- *)
\* variant: the bound test written as `attempt >= 10`
MaxAttemptsNine == 10 - 1

\* `if attempt > 10` in both 'relay loops
MaxAttempts == 10
\* finalization_gap_blocks handed to the ethereum Fetcher
FinalizationGap == 1

Blocks == 0..MaxBlock

\* Option<u64>::None
None == -1
\* Option<DestinationId>::None
NoDestination == "none"
\* Option<&Relayer>::None
NoRelayer == "none"

(* ----------------------- ethereum primitives -------------------------- *)
LogId(b, t, l) == [block_num |-> b, tx_idx |-> t, log_idx |-> l]

SyncCheckpoint(b, t, l) == [block_num |-> b, tx_idx |-> t, log_idx |-> l]

from_log_id(id) == SyncCheckpoint(id.block_num, id.tx_idx, id.log_idx)

from_block_num(b) == SyncCheckpoint(b, None, None)

just_block_num(c) == c.log_idx = None /\ c.tx_idx = None

get_block_num(c) == c.block_num

\* variant: None is above every Some(_)
OptionLtNoneLast(a, b) ==
    IF b = None THEN a # None
    ELSE IF a = None THEN FALSE
    ELSE a < b

\* derived ordering of Option<u64>: None is below every Some(_)
OptionLt(a, b) ==
    IF a = None THEN b # None
    ELSE IF b = None THEN FALSE
    ELSE a < b

OptionGt(a, b) == OptionLt(b, a)

partial_cmp(a, b) ==
    IF a.block_num > b.block_num THEN "Greater"
    ELSE IF a.block_num < b.block_num THEN "Less"
    ELSE IF OptionGt(a.tx_idx, b.tx_idx) THEN "Greater"
    ELSE IF OptionLt(a.tx_idx, b.tx_idx) THEN "Less"
    ELSE IF OptionGt(a.log_idx, b.log_idx) THEN "Greater"
    ELSE IF OptionLt(a.log_idx, b.log_idx) THEN "Less"
    ELSE "Equal"

lt(a, b) == partial_cmp(a, b) = "Less"

(* --------------------------- source chain ----------------------------- *)
\* no function is under study
NoArgs == << >>

\* validate has not been handed a configuration
NoConfig == [listeners |-> <<>>, relayers |-> <<>>]

\* (tx_idx, log_idx) of the i-th deposit log of a block,
\* in the order the node returns the logs
EventPool ==
    << [tx_idx |-> 0, log_idx |-> 0],
       [tx_idx |-> 0, log_idx |-> 1],
       [tx_idx |-> 1, log_idx |-> 0],
       [tx_idx |-> 1, log_idx |-> 1] >>

\* destination keys the deposit logs carry: a key of the Relay::Multi map, a
\* key missing from it, and no key at all
Destinations == << "A", "B", NoDestination >>

\* key of the i-th deposit log of block b
DestinationOf(b, i) == Destinations[((i - 1 + 2 * b) % Len(Destinations)) + 1]

PayIn(id, dest, amount, nonce, resource_id, data) ==
    [ id |-> id, maybe_destination_id |-> dest, amount |-> amount,
      nonce |-> nonce, resource_id |-> resource_id, data |-> data ]

\* chain_id the listener was created with
ListenerChainId == 1

\* keys of the Relay::Multi map
MultiKeys == {"A"}

RelayOutcomes == {"Ok", "TransportError", "WatchError", "AlreadyRelayed", "Other"}

\* the source chains considered: block b holds (k + b) mod (MaxEvents + 1)
\* deposit logs, for an offset k; every count from 0 to MaxEvents occurs in
\* every block position, and neighbouring blocks differ
Chains == { [b \in Blocks |-> (k + b) % (MaxEvents + 1)] : k \in 0..MaxEvents }

VARIABLES
    chain,                 \* number of deposit logs in each finalized block
    relay,                 \* "Single" or "Multi"
    start_block,
    checkpoint,            \* stored Option<SyncCheckpoint>: <<>> or <<c>>
    stop_signal,           \* oneshot channel: "empty", "sent", "closed"
    pc,
    block_number_to_sync,
    fast,
    events,                \* vector returned by get_block_pay_in_events
    idx,                   \* position of the for loop in events
    attempt,
    outcome,               \* result of the last relay call for events[idx]
    calls,                 \* relay calls made for events[idx] in this run
    relayArgs,             \* argument lists of those calls
    fails,                 \* of which TransportError / WatchError
    okEver,                \* ids whose relay returned Ok / AlreadyRelayed
    okRun,                 \* the same, since the last (re)start
    relayLog,              \* ids handed to relay since the last (re)start
    resumed,               \* checkpoint read when sync() started
    low,                   \* block the listener was last told to start at
    last_finalized_block,  \* finalized head seen in the current cycle, or None
    block_number,          \* node head answered by get_block_number in the current cycle, or None
    relayerLog,            \* relayer called for each entry of relayLog
    fetchLog,              \* blocks whose events were fetched since the last (re)start
    fetchFailed,           \* last block whose fetch failed since the last (re)start
    sup,                   \* owner of the listener thread: "test", or run()'s position
    exit_code,             \* exit status of the worker process, or None
    config,                \* BridgeConfig handed to validate
    result,                \* what validate returned
    args,                  \* arguments of the function under study
    ret,                   \* what it returned
    threads,               \* where each thread calling SubstrateRelayer::relay stands
    relay_lock,            \* holder of the relayer's relay_lock, or Unlocked
    peer,                  \* another listener thread of the same process
    keystore,              \* LocalKeystore: vault and key files
    undecodable,           \* blocks holding a deposit log that does not decode
    files,                 \* checkpoint files: the listeners that have written each
    client                 \* substrate Fetcher::client: "None" or "Some"

vars == << chain, relay, start_block, checkpoint, stop_signal, pc,
           block_number_to_sync, fast, events, idx, attempt, outcome,
           calls, relayArgs, fails, okEver, okRun, relayLog, resumed, low,
           last_finalized_block, block_number, relayerLog, fetchLog, fetchFailed, sup,
           exit_code,
           config, result, args, ret, threads, relay_lock, peer,
           keystore, undecodable, files, client >>

shared == << threads, relay_lock, peer, keystore, undecodable, files, client >>

env == << chain, relay, sup, exit_code, config, result, args, ret, shared >>

\* tokio Mutex not held
Unlocked == 0
\* no thread calls the substrate relayer
NoThreads == << >>
\* the process runs one listener only
NoPeer == << >>

\* no key import server runs
NoKeystore == << >>

\* no checkpoint file is looked at
NoFiles == << >>

\* nothing runs beside the listener
Alone ==
    /\ threads = NoThreads
    /\ relay_lock = Unlocked
    /\ peer = NoPeer
    /\ keystore = NoKeystore
    /\ undecodable = {}
    /\ files = NoFiles
    /\ client = "None"

hist == << okEver, okRun, relayLog, relayerLog, fetchLog, fetchFailed >>

\* events of block b as the fetcher returns them
BlockPayInEvents(b) ==
    [i \in 1..chain[b] |->
        PayIn(LogId(b, EventPool[i].tx_idx, EventPool[i].log_idx), DestinationOf(b, i),
              10 * (b + 1) + i, b * (MaxEvents + 1) + i, "resource", << b, i >>)]

\* variant: a retry is sent with the next nonce
RelayArgumentsBumped(event, n) ==
    << event.amount, event.nonce + (n - 1), event.resource_id, event.data,
       ListenerChainId >>

\* the arguments of relayer.relay(..) for an event, at attempt n
RelayArguments(event, n) ==
    << event.amount, event.nonce, event.resource_id, event.data, ListenerChainId >>

\* variant: a key missing from the map falls back to the first relayer
MaybeRelayerFallback(event) ==
    IF relay = "Single" THEN "R"
    ELSE IF event.maybe_destination_id # NoDestination
         THEN IF event.maybe_destination_id \in MultiKeys
              THEN event.maybe_destination_id ELSE "A"
         ELSE NoRelayer

\* the relayer the route selects for an event
MaybeRelayer(event) ==
    IF relay = "Single" THEN "R"
    ELSE IF event.maybe_destination_id # NoDestination
            /\ event.maybe_destination_id \in MultiKeys
         THEN event.maybe_destination_id
         ELSE NoRelayer

\* u64::checked_sub
CheckedSub(a, b) == IF a >= b THEN a - b ELSE None

\* variant: the node head itself is reported as finalized
get_last_finalized_block_num_no_gap(last_block_number) == last_block_number

\* ethereum Fetcher::get_last_finalized_block_num, given the node's answer
get_last_finalized_block_num(last_block_number) ==
    CheckedSub(last_block_number, FinalizationGap)

\* variant: the distance is taken from the block after the one to sync
FastSyncFromNext(last, b) ==
    CheckedSub(last, b + 1) # None /\ CheckedSub(last, b + 1) > 1

\* `fast`: more than one finalized block lies beyond the block to sync
FastSync(last, b) ==
    CheckedSub(last, b) # None /\ CheckedSub(last, b) > 1

\* `if !fast { sleep(1 s) }` at the end of 'main
Sleeps(f) == ~f

\* variant: a block above the finalized head is fetched as well
ShouldFetchAhead(last, b) == last + 1 >= b

\* `if last_finalized_block >= block_number_to_sync`
ShouldFetch(last, b) == last >= b

\* variant: start_block never overrides a stored checkpoint
InitialBlockNoOverride(cp, sb) ==
    IF Len(cp) = 1
    THEN IF just_block_num(cp[1]) THEN get_block_num(cp[1]) + 1
         ELSE get_block_num(cp[1])
    ELSE sb

\* variant: an interrupted block is not processed again
InitialBlockSkipsPartial(cp, sb) ==
    IF Len(cp) = 1
    THEN IF sb > get_block_num(cp[1]) THEN sb
         ELSE get_block_num(cp[1]) + 1
    ELSE sb

\* starting block computed from the stored checkpoint
InitialBlock(cp, sb) ==
    IF Len(cp) = 1
    THEN IF sb > get_block_num(cp[1]) THEN sb
         ELSE IF just_block_num(cp[1]) THEN get_block_num(cp[1]) + 1
         ELSE get_block_num(cp[1])
    ELSE sb

\* variant: the log index is left out of the saved checkpoint
EventCheckpointNoLog(event) ==
    SyncCheckpoint(event.id.block_num, event.id.tx_idx, None)

\* variant: only the block number of the event is saved
EventCheckpointBlockOnly(event) == from_block_num(event.id.block_num)

\* checkpoint saved after an event was handled
EventCheckpoint(event) == from_log_id(event.id)

\* variant: the block after the one handled is marked complete
BlockCheckpointNext(b) == from_block_num(b + 1)

\* checkpoint saved after a block was handled
BlockCheckpoint(b) == from_block_num(b)

\* variant: the increment is forgotten
NextBlockSame(b) == b

\* block_number_to_sync += 1
NextBlock(b) == b + 1

\* CheckpointRepository::get: the value last saved, if any
RepositoryGet(store) == store

\* CheckpointRepository::save: durable, overwrites the previous value
RepositorySave(store, c) == << c >>

\* is the event relayed, given the stored checkpoint
ShouldRelay(cp, event) ==
    IF Len(cp) = 1 THEN lt(cp[1], from_log_id(event.id)) ELSE TRUE

\* variant: Other falls into the default arm
AfterRelayOtherSaves(o) ==
    CASE o = "TransportError" -> "relay"
      [] o = "WatchError"     -> "relay"
      [] OTHER                -> "save"

\* variant: Other is retried
AfterRelayOtherRetries(o) ==
    CASE o = "TransportError" -> "relay"
      [] o = "WatchError"     -> "relay"
      [] o = "Other"          -> "relay"
      [] OTHER                -> "save"

\* variant: WatchError is fatal
AfterRelayWatchFails(o) ==
    CASE o = "TransportError" -> "relay"
      [] o = "WatchError"     -> "failed"
      [] o = "Other"          -> "failed"
      [] OTHER                -> "save"

\* variant: AlreadyRelayed is fatal
AfterRelayAlreadyRelayedFails(o) ==
    CASE o = "TransportError" -> "relay"
      [] o = "WatchError"     -> "relay"
      [] o = "Other"          -> "failed"
      [] o = "AlreadyRelayed" -> "failed"
      [] OTHER                -> "save"

\* where the 'relay loop goes after one relay call
AfterRelay(o) ==
    CASE o = "TransportError" -> "relay"
      [] o = "WatchError"     -> "relay"
      [] o = "Other"          -> "failed"
      [] o = "AlreadyRelayed" -> "save"
      [] OTHER                -> "save"

Retried(o) == o \in {"TransportError", "WatchError"}

\* a listener as Listener::new returns it, over an empty repository
Constructed ==
    /\ chain \in Chains
    /\ relay \in {"Single", "Multi"}
    /\ start_block \in Blocks
    /\ checkpoint = <<>>
    /\ stop_signal = "empty"
    /\ pc = "init"
    /\ block_number_to_sync = 0
    /\ fast = FALSE
    /\ events = <<>>
    /\ idx = 0
    /\ attempt = 0
    /\ outcome = "none"
    /\ calls = 0
    /\ relayArgs = {}
    /\ fails = 0
    /\ okEver = {}
    /\ okRun = {}
    /\ relayLog = <<>>
    /\ resumed = <<>>
    /\ low = 0
    /\ last_finalized_block = None /\ block_number = None
    /\ relayerLog = <<>>
    /\ fetchLog = <<>>
    /\ fetchFailed = None

Init ==
    /\ Constructed
    /\ sup = "test"
    /\ exit_code = None
    /\ config = NoConfig
    /\ result = "none"
    /\ args = NoArgs
    /\ ret = NoArgs
    /\ Alone

\* sync(): read the checkpoint and pick the first block
SyncStart ==
    /\ pc = "init"
    /\ block_number_to_sync' = InitialBlock(RepositoryGet(checkpoint), start_block)
    /\ low' = IF Len(checkpoint) = 0 \/ start_block > get_block_num(checkpoint[1])
              THEN start_block ELSE low
    /\ resumed' = checkpoint
    /\ pc' = "top"
    /\ UNCHANGED << env, block_number, last_finalized_block, start_block, checkpoint, stop_signal, fast, events, idx,
                    attempt, outcome, calls, relayArgs, fails, hist >>

\* variant: the test of try_recv() is inverted
StopObservedInverted(signal) == signal # "sent"

\* stop_signal.try_recv().is_ok(): a value was sent and not yet taken
StopObserved(signal) == signal = "sent"

\* top of 'main: stop_signal.try_recv()
CheckStop ==
    /\ pc = "top"
    /\ IF StopObserved(stop_signal)
       THEN pc' = "stopped" /\ stop_signal' = "closed"
       ELSE pc' = "head" /\ UNCHANGED stop_signal
    /\ UNCHANGED << env, block_number, last_finalized_block, start_block, checkpoint, block_number_to_sync, fast,
                    events, idx, attempt, outcome, calls, relayArgs, fails, hist, resumed, low >>

\* get_last_finalized_block_num() failed
HeadError ==
    /\ pc = "head"
    /\ pc' = "top"
    /\ UNCHANGED << env, block_number, last_finalized_block, start_block, checkpoint, stop_signal,
                    block_number_to_sync, fast, events, idx, attempt, outcome,
                    calls, relayArgs, fails, hist, resumed, low >>

\* get_last_finalized_block_num() answered: node head minus the gap
\* for a node whose head is one of heads; blocks beyond MaxBlock are not
\* looked into
HeadOkWithin(heads) ==
    /\ pc = "head"
    /\ \E node_head \in heads :
         LET last == get_last_finalized_block_num(node_head) IN
         /\ block_number' = node_head
         /\ last_finalized_block' = get_last_finalized_block_num(node_head)
         /\ IF last = None
            THEN pc' = "top" /\ UNCHANGED fast
            ELSE /\ ShouldFetch(last, block_number_to_sync)
                       => block_number_to_sync \in Blocks
                 /\ fast' = FastSync(last, block_number_to_sync)
                 /\ pc' = IF ShouldFetch(last, block_number_to_sync)
                          THEN "fetch" ELSE "pace"
    /\ UNCHANGED << env, start_block, checkpoint, stop_signal,
                    block_number_to_sync, events, idx, attempt, outcome,
                    calls, relayArgs, fails, hist, resumed, low >>

HeadOk == HeadOkWithin(0..(MaxBlock + FinalizationGap))

\* variant: a failed fetch gives the block up and goes on to the next one
FetchErrorSkipping ==
    /\ pc = "fetch"
    /\ pc' = "top"
    /\ last_finalized_block' = None /\ block_number' = None
    /\ fetchFailed' = block_number_to_sync
    /\ checkpoint' = RepositorySave(checkpoint, BlockCheckpoint(block_number_to_sync))
    /\ block_number_to_sync' = NextBlock(block_number_to_sync)
    /\ UNCHANGED << env, start_block, stop_signal,
                    fast, events, idx, attempt, outcome,
                    calls, relayArgs, fails, okEver, okRun, relayLog, relayerLog,
                    fetchLog, resumed, low >>

\* get_block_pay_in_events() failed: sleep(1) and continue 'main
FetchError ==
    /\ pc = "fetch"
    /\ pc' = "top"
    /\ last_finalized_block' = None /\ block_number' = None
    /\ fetchFailed' = block_number_to_sync
    /\ UNCHANGED << env, start_block, checkpoint, stop_signal,
                    block_number_to_sync, fast, events, idx, attempt, outcome,
                    calls, relayArgs, fails, okEver, okRun, relayLog, relayerLog,
                    fetchLog, resumed, low >>

\* variant: a log that does not decode is left out of the answer
DecodesOrSkipped(b, bad) == TRUE

\* abi_decode_data(..).unwrap() goes through for every deposit log of b
Decodes(b, bad) == b \notin bad

\* get_block_pay_in_events() returned the events of the block
FetchOk ==
    /\ pc = "fetch"
    /\ Decodes(block_number_to_sync, undecodable)
    /\ events' = BlockPayInEvents(block_number_to_sync)
    /\ idx' = 1
    /\ pc' = IF chain[block_number_to_sync] = 0 THEN "block_done" ELSE "event"
    /\ fetchLog' = Append(fetchLog, block_number_to_sync)
    /\ UNCHANGED << env, block_number, last_finalized_block, start_block, checkpoint, stop_signal,
                    block_number_to_sync, fast, attempt, outcome, calls, relayArgs, fails,
                    okEver, okRun, relayLog, relayerLog, fetchFailed, resumed, low >>

\* get_block_pay_in_events() panicked on a deposit log: the thread unwinds
FetchPanic ==
    /\ pc = "fetch"
    /\ ~Decodes(block_number_to_sync, undecodable)
    /\ pc' = "panicked"
    /\ UNCHANGED << env, block_number, last_finalized_block, start_block, checkpoint, stop_signal,
                    block_number_to_sync, fast, events, idx, attempt, outcome,
                    calls, relayArgs, fails, hist, resumed, low >>

\* head of the for loop: route the event and apply the checkpoint filter
RouteEvent ==
    /\ pc = "event"
    /\ IF /\ MaybeRelayer(events[idx]) # NoRelayer
          /\ ShouldRelay(RepositoryGet(checkpoint), events[idx])
       THEN pc' = "relay" /\ attempt' = 1
       ELSE pc' = "save" /\ attempt' = 0
    /\ outcome' = "none"
    /\ calls' = 0
    /\ relayArgs' = {}
    /\ fails' = 0
    /\ UNCHANGED << env, block_number, last_finalized_block, start_block, checkpoint, stop_signal,
                    block_number_to_sync, fast, events, idx, hist, resumed, low >>

\* 'relay loop: attempt > 10
RelayExhausted ==
    /\ pc = "relay"
    /\ attempt > MaxAttempts
    /\ pc' = "failed"
    /\ UNCHANGED << env, block_number, last_finalized_block, start_block, checkpoint, stop_signal,
                    block_number_to_sync, fast, events, idx, attempt, outcome,
                    calls, relayArgs, fails, hist, resumed, low >>

\* 'relay loop: one relayer.relay(..) call and the match on its result, for
\* a relayer whose answers are in outs
RelayCallReturning(outs) ==
    /\ pc = "relay"
    /\ ~(attempt > MaxAttempts)
    /\ \E o \in outs :
        /\ outcome' = o
        /\ pc' = AfterRelay(o)
        /\ attempt' = IF Retried(o) THEN attempt + 1 ELSE attempt
        /\ fails' = IF o \in {"TransportError", "WatchError"} THEN fails + 1 ELSE fails
        /\ okEver' = IF o \in {"Ok", "AlreadyRelayed"}
                     THEN okEver \cup {events[idx].id} ELSE okEver
        /\ okRun' = IF o \in {"Ok", "AlreadyRelayed"}
                    THEN okRun \cup {events[idx].id} ELSE okRun
    /\ calls' = calls + 1
    /\ relayArgs' = relayArgs \cup {RelayArguments(events[idx], attempt)}
    /\ relayLog' = IF calls = 0 THEN Append(relayLog, events[idx].id) ELSE relayLog
    /\ relayerLog' = IF calls = 0
                     THEN Append(relayerLog, MaybeRelayer(events[idx]))
                     ELSE relayerLog
    /\ UNCHANGED << env, block_number, last_finalized_block, start_block, checkpoint, stop_signal,
                    block_number_to_sync, fast, events, idx, resumed, low, fetchLog,
                    fetchFailed >>

\* the same with a relayer that may answer anything
RelayCall == RelayCallReturning(RelayOutcomes)

\* variant: the checkpoint is saved only for an event that was relayed
SaveEventIfRelayed ==
    /\ pc = "save"
    /\ checkpoint' = IF calls > 0
                     THEN RepositorySave(checkpoint, EventCheckpoint(events[idx]))
                     ELSE checkpoint
    /\ IF idx < Len(events)
       THEN idx' = idx + 1 /\ pc' = "event"
       ELSE idx' = idx /\ pc' = "block_done"
    /\ UNCHANGED << env, block_number, last_finalized_block, start_block, stop_signal, block_number_to_sync, fast,
                    events, attempt, outcome, calls, relayArgs, fails, hist, resumed, low >>

\* end of the for body: save the event's checkpoint
SaveEvent ==
    /\ pc = "save"
    /\ checkpoint' = RepositorySave(checkpoint, EventCheckpoint(events[idx]))
    /\ IF idx < Len(events)
       THEN idx' = idx + 1 /\ pc' = "event"
       ELSE idx' = idx /\ pc' = "block_done"
    /\ UNCHANGED << env, block_number, last_finalized_block, start_block, stop_signal, block_number_to_sync, fast,
                    events, attempt, outcome, calls, relayArgs, fails, hist, resumed, low >>

\* after the for loop: save the block's checkpoint and move on
BlockDone ==
    /\ pc = "block_done"
    /\ checkpoint' = RepositorySave(checkpoint, BlockCheckpoint(block_number_to_sync))
    /\ block_number_to_sync' = NextBlock(block_number_to_sync)
    /\ events' = <<>>
    /\ idx' = 0
    /\ attempt' = 0
    /\ outcome' = "none"
    /\ calls' = 0
    /\ relayArgs' = {}
    /\ fails' = 0
    /\ pc' = "pace"
    /\ UNCHANGED << env, block_number, last_finalized_block, start_block, stop_signal, fast, hist, resumed, low >>

\* end of 'main: sleep unless fast
Pace ==
    /\ pc = "pace"
    /\ pc' = "top"
    /\ fast' = FALSE
    /\ last_finalized_block' = None /\ block_number' = None
    /\ UNCHANGED << env, start_block, checkpoint, stop_signal,
                    block_number_to_sync, events, idx, attempt, outcome,
                    calls, relayArgs, fails, hist, resumed, low >>

\* the owner of the sender half sends the stop signal
SendStop ==
    /\ stop_signal = "empty"
    /\ pc \notin {"init", "stopped", "failed"}
    /\ stop_signal' = "sent"
    /\ UNCHANGED << env, block_number, last_finalized_block, start_block, checkpoint, pc, block_number_to_sync,
                    fast, events, idx, attempt, outcome, calls, relayArgs, fails, hist, resumed, low >>

\* the sender half is dropped without a send
DropSender ==
    /\ stop_signal = "empty"
    /\ pc \notin {"init", "stopped", "failed", "killed"}
    /\ stop_signal' = "closed"
    /\ UNCHANGED << env, block_number, last_finalized_block, start_block, checkpoint, pc, block_number_to_sync,
                    fast, events, idx, attempt, outcome, calls, relayArgs, fails, hist, resumed, low >>

\* the process is killed (or has ended) and is started again
Restart ==
    /\ pc # "init"
    /\ \E sb \in Blocks : start_block' = sb
    /\ pc' = "init"
    /\ stop_signal' = "empty"
    /\ block_number_to_sync' = 0
    /\ fast' = FALSE
    /\ events' = <<>>
    /\ idx' = 0
    /\ attempt' = 0
    /\ outcome' = "none"
    /\ calls' = 0
    /\ relayArgs' = {}
    /\ fails' = 0
    /\ okRun' = {}
    /\ relayLog' = <<>>
    /\ resumed' = <<>>
    /\ last_finalized_block' = None /\ block_number' = None
    /\ relayerLog' = <<>>
    /\ fetchLog' = <<>>
    /\ fetchFailed' = None
    /\ UNCHANGED << env, checkpoint, okEver, low >>

Next ==
    \/ SyncStart
    \/ CheckStop
    \/ HeadError
    \/ HeadOk
    \/ FetchError
    \/ FetchOk
    \/ RouteEvent
    \/ RelayExhausted
    \/ RelayCall
    \/ SaveEvent
    \/ BlockDone
    \/ Pace
    \/ SendStop
    \/ DropSender
    \/ Restart

Spec == Init /\ [][Next]_vars

(* ------------------------ BridgeConfig::validate ----------------------- *)
\* values the fields of a configuration are drawn from
ListenerIds == {"L1", "L2"}

ChainIds == {0, 1}

RelayerIds == {"R1", "R2"}

DestinationIds == {"D1", "D2"}

TypeNames == {"ethereum", "bitcoin"}

ListenerConfigs ==
    [ id : ListenerIds, chain_id : ChainIds, listener_type : TypeNames,
      relayers : { <<>>, << "R1" >> } ]

RelayerConfigs ==
    [ id : RelayerIds, destination_id : DestinationIds, relayer_type : TypeNames ]

SeqsUpTo(S, n) == UNION { [1..k -> S] : k \in 0..n }

Configs ==
    [ listeners : SeqsUpTo(ListenerConfigs, MaxListeners),
      relayers : SeqsUpTo(RelayerConfigs, MaxRelayers) ]

\* Itertools::all_unique
all_unique(seq) ==
    \A i \in 1..Len(seq) : \A j \in 1..Len(seq) : i # j => seq[i] # seq[j]

\* the first Err of two results, as the ? operator propagates it
Then(first, second) == IF first # "Ok" THEN first ELSE second

check_listener_id_uniqueness(c) ==
    IF ~all_unique([i \in 1..Len(c.listeners) |-> c.listeners[i].id])
    THEN "ListenerIdNotUnique" ELSE "Ok"

check_listener_type(c) ==
    IF \E i \in 1..Len(c.listeners) :
          /\ c.listeners[i].listener_type # "ethereum"
          /\ c.listeners[i].listener_type # "substrate"
    THEN "ListenerTypeUnknown" ELSE "Ok"

check_listeners_relayer_arr_not_empty(c) ==
    IF \E i \in 1..Len(c.listeners) : Len(c.listeners[i].relayers) = 0
    THEN "ListenerRelayersEmpty" ELSE "Ok"

check_relayer_id_uniqueness(c) ==
    IF ~all_unique([i \in 1..Len(c.relayers) |-> c.relayers[i].id])
    THEN "RelayerIdNotUnique" ELSE "Ok"

check_relayer_type(c) ==
    IF \E i \in 1..Len(c.relayers) :
          /\ c.relayers[i].relayer_type # "ethereum"
          /\ c.relayers[i].relayer_type # "substrate"
    THEN "RelayerTypeUnknown" ELSE "Ok"

check_relayer_destination_id_uniqueness(c) ==
    IF ~all_unique([i \in 1..Len(c.relayers) |-> c.relayers[i].destination_id])
    THEN "RelayerDestinationIdNotUnique" ELSE "Ok"

\* variant: only the relayers the listeners name are looked at
check_used_relayer_ids_one_way(c) ==
    LET relayers_used_by_listeners ==
            UNION { { c.listeners[i].relayers[k] : k \in 1..Len(c.listeners[i].relayers) } :
                    i \in 1..Len(c.listeners) }
        relayers_defined == { c.relayers[i].id : i \in 1..Len(c.relayers) }
    IN  IF relayers_used_by_listeners \ relayers_defined # {}
        THEN "ListenerRelayerNotDefined"
        ELSE "Ok"

check_used_relayer_ids(c) ==
    LET relayers_used_by_listeners ==
            UNION { { c.listeners[i].relayers[k] : k \in 1..Len(c.listeners[i].relayers) } :
                    i \in 1..Len(c.listeners) }
        relayers_defined == { c.relayers[i].id : i \in 1..Len(c.relayers) }
    IN  IF relayers_used_by_listeners \ relayers_defined # {}
        THEN "ListenerRelayerNotDefined"
        ELSE IF relayers_defined \ relayers_used_by_listeners # {}
        THEN "RelayerNotUsed"
        ELSE "Ok"

\* variant: the destination ids are looked at after the used relayer ids
validate_destination_last(c) ==
    Then(check_listener_id_uniqueness(c),
    Then(check_listener_type(c),
    Then(check_listeners_relayer_arr_not_empty(c),
    Then(check_relayer_id_uniqueness(c),
    Then(check_relayer_type(c),
    Then(check_used_relayer_ids(c),
         check_relayer_destination_id_uniqueness(c)))))))

validate(c) ==
    Then(check_listener_id_uniqueness(c),
    Then(check_listener_type(c),
    Then(check_listeners_relayer_arr_not_empty(c),
    Then(check_relayer_id_uniqueness(c),
    Then(check_relayer_type(c),
    Then(check_relayer_destination_id_uniqueness(c),
         check_used_relayer_ids(c)))))))

\* no listener is running: only a configuration is at hand
ConfigInit ==
    /\ config \in Configs
    /\ result = "none"
    /\ chain = [b \in Blocks |-> 0]
    /\ relay = "Single"
    /\ start_block = 0
    /\ checkpoint = <<>>
    /\ stop_signal = "empty"
    /\ pc = "config"
    /\ block_number_to_sync = 0
    /\ fast = FALSE
    /\ events = <<>>
    /\ idx = 0
    /\ attempt = 0
    /\ outcome = "none"
    /\ calls = 0
    /\ relayArgs = {}
    /\ fails = 0
    /\ okEver = {}
    /\ okRun = {}
    /\ relayLog = <<>>
    /\ resumed = <<>>
    /\ low = 0
    /\ last_finalized_block = None /\ block_number = None
    /\ relayerLog = <<>>
    /\ fetchLog = <<>>
    /\ fetchFailed = None
    /\ sup = "run"
    /\ exit_code = None
    /\ args = NoArgs
    /\ ret = NoArgs
    /\ Alone

\* run(): config.validate()
Validate ==
    /\ pc = "config"
    /\ result = "none"
    /\ result' = validate(config)
    /\ UNCHANGED << shared, chain, relay, sup, exit_code, config, args, ret, start_block,
                    checkpoint, stop_signal, pc, block_number_to_sync, fast,
                    events, idx, attempt, outcome, calls, relayArgs, fails, hist, resumed,
                    low, last_finalized_block, block_number >>

ConfigNext == Validate

ConfigSpec == ConfigInit /\ [][ConfigNext]_vars

(* --------------------- functions studied on their own ------------------ *)
\* everything a listener thread owns
listenerVars ==
    << start_block, checkpoint, stop_signal, pc, block_number_to_sync, fast,
       events, idx, attempt, outcome, calls, relayArgs, fails, hist, resumed, low,
       last_finalized_block, block_number >>

\* no listener runs and no configuration is validated
Parked ==
    /\ chain = [b \in Blocks |-> 0]
    /\ relay = "Single"
    /\ start_block = 0
    /\ checkpoint = <<>>
    /\ stop_signal = "empty"
    /\ block_number_to_sync = 0
    /\ fast = FALSE
    /\ events = <<>>
    /\ idx = 0
    /\ attempt = 0
    /\ outcome = "none"
    /\ calls = 0
    /\ relayArgs = {}
    /\ fails = 0
    /\ okEver = {}
    /\ okRun = {}
    /\ relayLog = <<>>
    /\ resumed = <<>>
    /\ low = 0
    /\ last_finalized_block = None /\ block_number = None
    /\ relayerLog = <<>>
    /\ fetchLog = <<>>
    /\ fetchFailed = None
    /\ sup = "run"
    /\ exit_code = None
    /\ config = NoConfig
    /\ result = "none"

(* ----------------- PartialOrd for SyncCheckpoint ----------------------- *)
\* the checkpoints the listener creates: block-only, or with both indices
Checkpoints ==
    { from_block_num(b) : b \in 0..(MaxBlock + 1) }
    \cup { SyncCheckpoint(b, t, l) :
             b \in 0..(MaxBlock + 1), t \in 0..MaxIndex, l \in 0..MaxIndex }

OrderInit ==
    /\ Parked
    /\ Alone
    /\ pc = "order"
    /\ args \in Checkpoints \X Checkpoints \X Checkpoints
    /\ ret = NoArgs

\* a.partial_cmp(b) for the pairs of the three checkpoints
Compare ==
    /\ pc = "order"
    /\ ret = NoArgs
    /\ ret' = [ ab |-> partial_cmp(args[1], args[2]),
                ba |-> partial_cmp(args[2], args[1]),
                bc |-> partial_cmp(args[2], args[3]),
                ac |-> partial_cmp(args[1], args[3]) ]
    /\ UNCHANGED << shared, chain, relay, sup, exit_code, config, result, args,
                    listenerVars >>

OrderNext == Compare

OrderSpec == OrderInit /\ [][OrderNext]_vars

(* ---------------------- prepare_listener_context ----------------------- *)
FamilyNames == {"ethereum", "substrate"}

\* chain id configured for a listener id
ChainIdOf(id) == IF id = "L1" THEN 0 ELSE 1

ContextListeners ==
    { [ id |-> i, chain_id |-> ChainIdOf(i), listener_type |-> t, relayers |-> r ] :
        i \in ListenerIds, t \in FamilyNames,
        r \in { << "R1" >>, << "R2" >>, << "R1", "R2" >> } }

ContextRelayers ==
    [ id : RelayerIds, destination_id : DestinationIds, relayer_type : FamilyNames ]

\* the configurations run() goes on with: validate returned Ok
ValidConfigs ==
    { c \in [ listeners : SeqsUpTo(ContextListeners, MaxListeners),
              relayers : SeqsUpTo(ContextRelayers, MaxRelayers) ] :
        validate(c) = "Ok" }

\* --start-block arguments collected into a map listener id -> block
StartBlockMaps == UNION { [ S -> 0..MaxBlock ] : S \in SUBSET ListenerIds }

\* HashMap::insert over a sequence of (key, value) pairs: the last wins
InsertAll(pairs) ==
    [ k \in { pairs[i][1] : i \in 1..Len(pairs) } |->
        LET last == CHOOSE i \in 1..Len(pairs) :
                       /\ pairs[i][1] = k
                       /\ \A j \in 1..Len(pairs) : pairs[j][1] = k => j <= i
        IN  pairs[last][2] ]

\* create_from_config: the relayers of one type, keyed by relayer id
CreateFromConfig(c, t) ==
    LET kept == SelectSeq(c.relayers, LAMBDA r : r.relayer_type = t)
    IN  InsertAll([ i \in 1..Len(kept) |-> << kept[i].id, kept[i] >> ])

\* Relayer::destination_id
destination_id(relayer) == relayer.destination_id

\* variant: the relayer map of a context is keyed by relayer id
ContextKeyIsId(relayer) == relayer.id

\* key under which a relayer is put into the map of a context
ContextKey(relayer) == destination_id(relayer)

\* the relayers found for the ids of a listener, as (key, relayer id) pairs
FoundRelayers(ids, relayers) ==
    LET Found(id) ==
            IF id \in DOMAIN relayers["substrate"]
            THEN << << ContextKey(relayers["substrate"][id]), id >> >>
            ELSE IF id \in DOMAIN relayers["ethereum"]
            THEN << << ContextKey(relayers["ethereum"][id]), id >> >>
            ELSE << >>
        Collect[k \in 0..Len(ids)] ==
            IF k = 0 THEN << >> ELSE Collect[k - 1] \o Found(ids[k])
    IN  Collect[Len(ids)]

prepare_listener_context(c, listener_type, relayers, start_blocks) ==
    LET kept == SelectSeq(c.listeners, LAMBDA l : l.listener_type = listener_type)
    IN  [ i \in 1..Len(kept) |->
            [ id |-> kept[i].id,
              start_block |-> IF kept[i].id \in DOMAIN start_blocks
                              THEN start_blocks[kept[i].id] ELSE 0,
              chain_id |-> kept[i].chain_id,
              relayers |-> InsertAll(FoundRelayers(kept[i].relayers, relayers)) ] ]

ContextInit ==
    /\ Parked
    /\ Alone
    /\ pc = "context"
    /\ args \in [ config : ValidConfigs, listener_type : FamilyNames,
                   start_blocks : StartBlockMaps ]
    /\ ret = NoArgs

\* run(): the relayers are created, then the contexts of one listener type
PrepareContexts ==
    /\ pc = "context"
    /\ ret = NoArgs
    /\ LET relayers == [ t \in FamilyNames |-> CreateFromConfig(args.config, t) ]
       IN  ret' = << prepare_listener_context(args.config, args.listener_type,
                                               relayers, args.start_blocks) >>
    /\ UNCHANGED << shared, chain, relay, sup, exit_code, config, result, args,
                    listenerVars >>

ContextNext == PrepareContexts

ContextSpec == ContextInit /\ [][ContextNext]_vars

(* ------------------------- Relayer::relay ------------------------------ *)
\* lengths of the data field of a pay-in event: an ethereum address, one
\* word, and the three words the substrate relayer slices
DataLens == {20, 32, 96}

\* what the destination node does with a request
NodeAnswers == {"ok", "transport", "other"}

RelayArgs ==
    [ relayer : FamilyNames, data_len : DataLens, debug_enabled : BOOLEAN,
      connect : {"ok", "err"}, key_store : {"ok", "err"},
      submit : NodeAnswers, watch : NodeAnswers ]

\* what a relay call did: its result ("panic" when it unwound instead of
\* returning), whether a transaction reached the destination node and
\* whether its confirmation was seen
Returned(r, s, c) == [ result |-> r, submitted |-> s, confirmed |-> c ]

\* BridgeContractWrapper::vote_proposal
vote_proposal(submit, watch) ==
    IF submit = "transport" THEN Returned("TransportError", FALSE, FALSE)
    ELSE IF submit = "other" THEN Returned("Other", FALSE, FALSE)
    ELSE IF watch = "transport" THEN Returned("TransportError", TRUE, FALSE)
    ELSE IF watch = "other" THEN Returned("Other", TRUE, FALSE)
    ELSE Returned("Ok", TRUE, TRUE)

\* EthereumRelayer::relay; the argument Address::from_slice(&data) of the
\* first debug! is evaluated only when debug logging is enabled
EthereumRelay(a) ==
    IF a.debug_enabled /\ a.data_len # 20 THEN Returned("panic", FALSE, FALSE)
    ELSE IF a.data_len # 20 THEN Returned("Other", FALSE, FALSE)
    ELSE vote_proposal(a.submit, a.watch)

\* SubstrateRelayer::relay
SubstrateRelay(a) ==
    IF a.data_len < 96 THEN Returned("panic", FALSE, FALSE)
    ELSE IF a.connect = "err" THEN Returned("TransportError", FALSE, FALSE)
    ELSE IF a.key_store = "err" THEN Returned("Other", FALSE, FALSE)
    ELSE IF a.submit # "ok" THEN Returned("TransportError", FALSE, FALSE)
    ELSE IF a.watch # "ok" THEN Returned("Other", TRUE, FALSE)
    ELSE Returned("Ok", TRUE, TRUE)

RelayInit ==
    /\ Parked
    /\ Alone
    /\ pc = "relay_call"
    /\ args \in RelayArgs
    /\ ret = NoArgs

\* one call of relay on the relayer of the given kind
RelayOnce ==
    /\ pc = "relay_call"
    /\ ret = NoArgs
    /\ ret' = IF args.relayer = "ethereum"
              THEN EthereumRelay(args) ELSE SubstrateRelay(args)
    /\ UNCHANGED << shared, chain, relay, sup, exit_code, config, result, args,
                    listenerVars >>

RelayNext == RelayOnce

RelaySpec == RelayInit /\ [][RelayNext]_vars

(* ------------- SubstrateRelayer::relay on parallel threads ------------- *)
Threads == 1..MaxThreads

\* a thread in relay: where it stands and what its last call returned
Thread(at, r) == [ at |-> at, result |-> r ]

\* variant: the lock is handed out while another call holds it
CanLockAlways(lock) == TRUE

\* relay_lock.lock().await completes only while nobody holds the Mutex
CanLock(lock) == lock = Unlocked

\* the thread moves on inside relay, or returns r and drops its guard
Moves(t, to) == threads' = [threads EXCEPT ![t].at = to]

Returns(t, r) == threads' = [threads EXCEPT ![t] = Thread("idle", r)]

LockRest == << chain, relay, sup, exit_code, config, result, args, ret, peer,
               keystore, undecodable, files, client, listenerVars >>

LockInit ==
    /\ Parked
    /\ pc = "relayers"
    /\ args = NoArgs
    /\ ret = NoArgs
    /\ peer = NoPeer
    /\ keystore = NoKeystore
    /\ undecodable = {}
    /\ files = NoFiles
    /\ client = "None"
    /\ threads = [ t \in Threads |-> Thread("idle", "none") ]
    /\ relay_lock = Unlocked

\* a listener thread calls relay: the call is built, the node is dialled
CallRelay(t) ==
    /\ threads[t].at = "idle"
    /\ Moves(t, "connect")
    /\ UNCHANGED << relay_lock, LockRest >>

\* OnlineClient::from_insecure_url answered
ConnectOk(t) ==
    /\ threads[t].at = "connect"
    /\ Moves(t, "key")
    /\ UNCHANGED << relay_lock, LockRest >>

ConnectError(t) ==
    /\ threads[t].at = "connect"
    /\ Returns(t, "TransportError")
    /\ UNCHANGED << relay_lock, LockRest >>

\* key_store.read() and Keypair::from_secret_key succeeded
KeyOk(t) ==
    /\ threads[t].at = "key"
    /\ Moves(t, "lock")
    /\ UNCHANGED << relay_lock, LockRest >>

KeyError(t) ==
    /\ threads[t].at = "key"
    /\ Returns(t, "Other")
    /\ UNCHANGED << relay_lock, LockRest >>

\* let _lock = self.relay_lock.lock().await
Lock(t) ==
    /\ threads[t].at = "lock"
    /\ CanLock(relay_lock)
    /\ relay_lock' = t
    /\ Moves(t, "submit")
    /\ UNCHANGED LockRest

\* sign_and_submit_then_watch: the extrinsic is in the pool of the node
SubmitOk(t) ==
    /\ threads[t].at = "submit"
    /\ Moves(t, "watch")
    /\ UNCHANGED << relay_lock, LockRest >>

\* variant: the guard outlives the call that failed
SubmitErrorKeepsLock(t) ==
    /\ threads[t].at = "submit"
    /\ Returns(t, "TransportError")
    /\ UNCHANGED << relay_lock, LockRest >>

SubmitError(t) ==
    /\ threads[t].at = "submit"
    /\ Returns(t, "TransportError")
    /\ relay_lock' = Unlocked
    /\ UNCHANGED LockRest

\* wait_for_finalized_success answered
WatchOk(t) ==
    /\ threads[t].at = "watch"
    /\ Returns(t, "Ok")
    /\ relay_lock' = Unlocked
    /\ UNCHANGED LockRest

WatchFailed(t) ==
    /\ threads[t].at = "watch"
    /\ Returns(t, "Other")
    /\ relay_lock' = Unlocked
    /\ UNCHANGED LockRest

LockNext ==
    \/ \E t \in Threads : CallRelay(t)
    \/ \E t \in Threads : ConnectOk(t)
    \/ \E t \in Threads : ConnectError(t)
    \/ \E t \in Threads : KeyOk(t)
    \/ \E t \in Threads : KeyError(t)
    \/ \E t \in Threads : Lock(t)
    \/ \E t \in Threads : SubmitOk(t)
    \/ \E t \in Threads : SubmitError(t)
    \/ \E t \in Threads : WatchOk(t)
    \/ \E t \in Threads : WatchFailed(t)

LockSpec == LockInit /\ [][LockNext]_vars

\* every submission and every watch ends, and the Mutex hands the lock to
\* each waiter in turn (tokio's Mutex is fair)
LockFairness ==
    \A t \in Threads :
        /\ WF_vars(SubmitOk(t) \/ SubmitError(t))
        /\ WF_vars(WatchOk(t) \/ WatchFailed(t))
        /\ SF_vars(Lock(t))

LockLiveSpec == LockInit /\ [][LockNext]_vars /\ LockFairness

(* ------------------------ hm_importRelayerKey -------------------------- *)
UNAUTHORIZED_REQUEST_CODE == -32000
KEYSTORE_WRITE_ERROR_CODE == -32001
SHIELDED_VALUE_DECRYPTION_ERROR_CODE == -32002
\* jsonrpsee: the parameters could not be parsed
INVALID_PARAMS_CODE == -32602
\* the method answered Ok(())
NoError == 0

KeyIds == {"K1", "K2"}
RelayerKeys == {"k1", "k2"}
\* no entry under an id
NoKey == "none"
\* a key file created and not written
EmptyFile == "empty"

\* RSA-OAEP: a plaintext sealed for the holder of a private key
Encrypted(to, body) == [ to |-> to, body |-> body ]
Ciphertexts == { Encrypted(to, k) : to \in {"shielding_key", "other_key"}, k \in RelayerKeys }

ImportRelayerKeyPayload == [ id : KeyIds, key : Ciphertexts ]

\* an ecdsa signature: who signed which payload
Signed(by, over) == [ by |-> by, over |-> over ]

\* the payload with the other id put in
Redirected(p) == [ p EXCEPT !.id = CHOOSE i \in KeyIds : i # p.id ]

\* requests: parsable or not, signed by the import signer or by someone
\* else, over the payload sent or over the same key for the other id; the
\* disk takes the key file or fails
Requests ==
    UNION { { [ parses |-> w, payload |-> p, signature |-> Signed(by, over), disk |-> d ] :
                w \in BOOLEAN, by \in {"import_signer", "mallory"},
                over \in { p, Redirected(p) },
                d \in {"ok", "create_fails", "write_fails"} } :
            p \in ImportRelayerKeyPayload }

\* SignedParams::verify_signature
verify_signature(params, signer) ==
    params.signature.by = signer /\ params.signature.over = params.payload

\* variant: every request is taken as authorized
ensure_authorized_request_any(params, signer) == "Ok"

ensure_authorized_request(params, signer) ==
    IF verify_signature(params, signer) THEN "Ok" ELSE "Unauthorized"

\* private_key().decrypt(Oaep, key): the plaintext, or NoKey on failure
decrypt(private_key, c) == IF c.to = private_key THEN c.body ELSE NoKey

\* LocalKeystore::set_key: the vault entry first, then the file
set_key(ks, id, key, disk) ==
    [ vault |-> [ ks.vault EXCEPT ![id] = key ],
      files |-> CASE disk = "ok"           -> [ ks.files EXCEPT ![id] = key ]
                  [] disk = "write_fails"  -> [ ks.files EXCEPT ![id] = EmptyFile ]
                  [] OTHER                 -> ks.files ]

\* the hm_importRelayerKey method: new keystore and error code
import_relayer_key(ks, req) ==
    IF ~req.parses THEN << ks, INVALID_PARAMS_CODE >>
    ELSE IF ensure_authorized_request(req, "import_signer") # "Ok"
    THEN << ks, UNAUTHORIZED_REQUEST_CODE >>
    ELSE IF decrypt("shielding_key", req.payload.key) = NoKey
    THEN << ks, SHIELDED_VALUE_DECRYPTION_ERROR_CODE >>
    ELSE << set_key(ks, req.payload.id, decrypt("shielding_key", req.payload.key), req.disk),
            IF req.disk = "ok" THEN NoError ELSE KEYSTORE_WRITE_ERROR_CODE >>

\* start_server over a keystore opened on an empty directory
ImportInit ==
    /\ Parked
    /\ pc = "rpc"
    /\ args = NoArgs
    /\ ret = NoArgs
    /\ threads = NoThreads
    /\ relay_lock = Unlocked
    /\ peer = NoPeer
    /\ undecodable = {}
    /\ files = NoFiles
    /\ client = "None"
    /\ keystore = [ vault |-> [ i \in KeyIds |-> NoKey ],
                    files |-> [ i \in KeyIds |-> NoKey ] ]

\* one hm_importRelayerKey request is served
ImportRelayerKey ==
    /\ pc = "rpc"
    /\ \E req \in Requests :
         /\ args' = req
         /\ keystore' = import_relayer_key(keystore, req)[1]
         /\ ret' = import_relayer_key(keystore, req)[2]
    /\ UNCHANGED << chain, relay, sup, exit_code, config, result, threads,
                    relay_lock, peer, undecodable, files, client, listenerVars >>

ImportNext == ImportRelayerKey

ImportSpec == ImportInit /\ [][ImportNext]_vars

(* ------------------- the listener under the worker ------------------- *)
\* run(): handle.join() returned for the listener thread, run returns
\* Ok(()) and so does main
WorkerJoin ==
    /\ sup = "run"
    /\ pc \in {"stopped", "failed"}
    /\ sup' = "exited"
    /\ exit_code' = 0
    /\ UNCHANGED << shared, chain, relay, config, result, args, ret, start_block, checkpoint,
                    stop_signal, pc, block_number_to_sync, fast, events, idx,
                    attempt, outcome, calls, relayArgs, fails, hist, resumed, low,
                    last_finalized_block, block_number >>

\* Ctrl-C while run() is blocked in join(): run installs no handler, the
\* process is terminated by the signal and the listener thread with it
Interrupt ==
    /\ sup = "run"
    /\ sup' = "killed"
    /\ exit_code' = 128 + 2
    /\ pc' = "killed"
    /\ UNCHANGED << shared, chain, relay, config, result, args, ret, start_block, checkpoint,
                    stop_signal, block_number_to_sync, fast, events, idx,
                    attempt, outcome, calls, relayArgs, fails, hist, resumed, low,
                    last_finalized_block, block_number >>

\* run() has spawned the listener thread through sync_ethereum
WorkerInit ==
    /\ Constructed
    /\ sup = "run"
    /\ exit_code = None
    /\ config = NoConfig
    /\ result = "none"
    /\ args = NoArgs
    /\ ret = NoArgs
    /\ Alone

WorkerNext ==
    \/ SyncStart
    \/ CheckStop
    \/ HeadError
    \/ HeadOk
    \/ FetchError
    \/ FetchOk
    \/ RouteEvent
    \/ RelayExhausted
    \/ RelayCall
    \/ SaveEvent
    \/ BlockDone
    \/ Pace
    \/ DropSender
    \/ WorkerJoin
    \/ Interrupt

WorkerSpec == WorkerInit /\ [][WorkerNext]_vars

(* --------------- two listener threads under one run() ----------------- *)
\* the other listener thread: whether its sync() still runs, the block it
\* syncs next and the checkpoint in its own file
Peer(st, b, cp) == [ state |-> st, block_number_to_sync |-> b, checkpoint |-> cp ]

Ended == {"stopped", "failed"}

\* variant: run() returns as soon as one listener thread has ended
AnyJoined(first, second) == first \in Ended \/ second \in Ended

\* `for handle in handles { handle.join().unwrap() }` has gone through
AllJoined(first, second) == first \in Ended /\ second \in Ended

SupervisedRest ==
    << chain, relay, config, result, args, ret, threads, relay_lock, keystore,
       undecodable, files, client,
       start_block, checkpoint, stop_signal, block_number_to_sync, fast,
       events, idx, attempt, outcome, calls, relayArgs, fails, hist, resumed, low,
       last_finalized_block, block_number >>

\* run() has spawned both listener threads
SupervisorInit ==
    /\ Constructed
    /\ sup = "run"
    /\ exit_code = None
    /\ config = NoConfig
    /\ result = "none"
    /\ args = NoArgs
    /\ ret = NoArgs
    /\ threads = NoThreads
    /\ relay_lock = Unlocked
    /\ keystore = NoKeystore
    /\ undecodable = {}
    /\ files = NoFiles
    /\ client = "None"
    /\ peer = Peer("syncing", 0, None)

\* the other listener completes a block and saves its checkpoint
PeerSyncBlock ==
    /\ sup = "run"
    /\ peer.state = "syncing"
    /\ peer.block_number_to_sync \in Blocks
    /\ peer' = Peer("syncing", peer.block_number_to_sync + 1,
                     peer.block_number_to_sync)
    /\ UNCHANGED << sup, exit_code, pc, SupervisedRest >>

\* the other listener's sync() returns Err and its thread ends
PeerFail ==
    /\ sup = "run"
    /\ peer.state = "syncing"
    /\ peer' = [ peer EXCEPT !.state = "failed" ]
    /\ UNCHANGED << sup, exit_code, pc, SupervisedRest >>

\* run(): every handle has been joined, run returns Ok(())
SupervisorJoin ==
    /\ sup = "run"
    /\ AllJoined(pc, peer.state)
    /\ sup' = "exited"
    /\ exit_code' = 0
    /\ UNCHANGED << peer, pc, SupervisedRest >>

\* a relayer that accepts or answers Other
RelayOkOrOther == RelayCallReturning({"Ok", "Other"})

SupervisedStep ==
    \/ SyncStart
    \/ CheckStop
    \/ HeadError
    \/ HeadOk
    \/ FetchError
    \/ FetchOk
    \/ RouteEvent
    \/ RelayOkOrOther
    \/ SaveEvent
    \/ BlockDone
    \/ Pace

SupervisorNext ==
    \/ SupervisedStep
    \/ DropSender
    \/ PeerSyncBlock
    \/ PeerFail
    \/ SupervisorJoin
    \/ Interrupt

SupervisorSpec == SupervisorInit /\ [][SupervisorNext]_vars

(* ------------- a run whose owner may send the stop signal ------------- *)
ListenerStep ==
    \/ SyncStart
    \/ CheckStop
    \/ HeadError
    \/ HeadOk
    \/ FetchError
    \/ FetchOk
    \/ RouteEvent
    \/ RelayExhausted
    \/ RelayCall
    \/ SaveEvent
    \/ BlockDone
    \/ Pace

StopNext ==
    \/ ListenerStep
    \/ SendStop

\* the calls the loop makes return and the thread keeps running
StopSpec == Init /\ [][StopNext]_vars /\ WF_vars(ListenerStep)

(* ---- a run on a finalized chain with a relayer that always accepts ---- *)
RelayAlwaysOk == RelayCallReturning({"Ok"})

RoundTripNext ==
    \/ SyncStart
    \/ CheckStop
    \/ HeadError
    \/ HeadOk
    \/ FetchError
    \/ FetchOk
    \/ RouteEvent
    \/ RelayAlwaysOk
    \/ SaveEvent
    \/ BlockDone
    \/ Pace

\* every step of the loop is eventually taken; the blocks being finalized,
\* the head query and the fetch of a block succeed again and again
RoundTripFairness ==
    /\ WF_vars(SyncStart)
    /\ WF_vars(CheckStop)
    /\ SF_vars(HeadOk /\ pc' = "fetch")
    /\ SF_vars(FetchOk)
    /\ WF_vars(RouteEvent)
    /\ WF_vars(RelayAlwaysOk)
    /\ WF_vars(SaveEvent)
    /\ WF_vars(BlockDone)
    /\ WF_vars(Pace)

RoundTripSpec == Init /\ [][RoundTripNext]_vars /\ RoundTripFairness

(* ------- a run against a node whose head is further ahead ------------- *)
HeadAhead == HeadOkWithin(0..(MaxBlock + FinalizationGap + 1))

PaceNext ==
    \/ SyncStart
    \/ CheckStop
    \/ HeadError
    \/ HeadAhead
    \/ FetchError
    \/ FetchOk
    \/ RouteEvent
    \/ RelayAlwaysOk
    \/ SaveEvent
    \/ BlockDone
    \/ Pace

PaceSpec == Init /\ [][PaceNext]_vars

(* ----------- a chain with deposit logs that do not decode -------------- *)
\* blocks with deposit logs, some of them holding one that does not decode
DecodeInit ==
    /\ Constructed
    /\ sup = "test"
    /\ exit_code = None
    /\ config = NoConfig
    /\ result = "none"
    /\ args = NoArgs
    /\ ret = NoArgs
    /\ threads = NoThreads
    /\ relay_lock = Unlocked
    /\ peer = NoPeer
    /\ keystore = NoKeystore
    /\ undecodable \in SUBSET { b \in Blocks : chain[b] > 0 }
    /\ files = NoFiles
    /\ client = "None"

DecodeNext ==
    \/ SyncStart
    \/ CheckStop
    \/ HeadError
    \/ HeadOk
    \/ FetchError
    \/ FetchOk
    \/ FetchPanic
    \/ RouteEvent
    \/ RelayAlwaysOk
    \/ SaveEvent
    \/ BlockDone
    \/ Pace
    \/ Restart

DecodeSpec == DecodeInit /\ [][DecodeNext]_vars

(* ---------------- the listener on the substrate fetcher ---------------- *)
\* everything but the fetcher's client and the listener's own fields
world ==
    << chain, relay, sup, exit_code, config, result, args, ret, threads,
       relay_lock, peer, keystore, undecodable, files >>

\* Fetcher::connect_if_needed: the client after the call, new_client()
\* answering Ok or Err
connect_if_needed(c, new_client_ok) ==
    IF c = "None"
    THEN IF new_client_ok THEN "Some" ELSE "None"
    ELSE c

\* substrate get_last_finalized_block_num() answered Err: no client, or the
\* client's query failed
SubstrateHeadError ==
    /\ pc = "head"
    /\ \E new_client_ok \in BOOLEAN :
         client' = connect_if_needed(client, new_client_ok)
    /\ pc' = "top"
    /\ UNCHANGED << world, block_number, last_finalized_block, start_block, checkpoint,
                    stop_signal, block_number_to_sync, fast, events, idx, attempt,
                    outcome, calls, relayArgs, fails, hist, resumed, low >>

\* variant: the head is asked over a connection that is not kept
SubstrateHeadOkNotKept ==
    /\ pc = "head"
    /\ \E new_client_ok \in BOOLEAN, node_head \in Blocks :
         /\ connect_if_needed(client, new_client_ok) = "Some"
         /\ client' = client
         /\ block_number' = node_head
         /\ last_finalized_block' = node_head
         /\ fast' = FastSync(node_head, block_number_to_sync)
         /\ pc' = IF ShouldFetch(node_head, block_number_to_sync) THEN "fetch" ELSE "pace"
    /\ UNCHANGED << world, start_block, checkpoint, stop_signal,
                    block_number_to_sync, events, idx, attempt, outcome,
                    calls, relayArgs, fails, hist, resumed, low >>

\* substrate get_last_finalized_block_num() answered Ok(Some(block_num))
SubstrateHeadOk ==
    /\ pc = "head"
    /\ \E new_client_ok \in BOOLEAN, node_head \in Blocks :
         /\ connect_if_needed(client, new_client_ok) = "Some"
         /\ client' = connect_if_needed(client, new_client_ok)
         /\ block_number' = node_head
         /\ last_finalized_block' = node_head
         /\ fast' = FastSync(node_head, block_number_to_sync)
         /\ pc' = IF ShouldFetch(node_head, block_number_to_sync) THEN "fetch" ELSE "pace"
    /\ UNCHANGED << world, start_block, checkpoint, stop_signal,
                    block_number_to_sync, events, idx, attempt, outcome,
                    calls, relayArgs, fails, hist, resumed, low >>

\* substrate get_block_pay_in_events() answered Ok: the events the client
\* fetched, or the empty list of the branch without a client
SubstrateFetchOk ==
    /\ pc = "fetch"
    /\ \E new_client_ok \in BOOLEAN :
         LET c == connect_if_needed(client, new_client_ok) IN
         /\ client' = c
         /\ events' = IF c = "Some" THEN BlockPayInEvents(block_number_to_sync) ELSE << >>
         /\ pc' = IF c = "Some" /\ chain[block_number_to_sync] > 0
                  THEN "event" ELSE "block_done"
    /\ idx' = 1
    /\ fetchLog' = Append(fetchLog, block_number_to_sync)
    /\ UNCHANGED << world, block_number, last_finalized_block, start_block, checkpoint,
                    stop_signal, block_number_to_sync, fast, attempt, outcome, calls,
                    relayArgs, fails, okEver, okRun, relayLog, relayerLog, fetchFailed,
                    resumed, low >>

\* substrate get_block_pay_in_events() answered Err: the client's query failed
SubstrateFetchError ==
    /\ pc = "fetch"
    /\ \E new_client_ok \in BOOLEAN :
         /\ connect_if_needed(client, new_client_ok) = "Some"
         /\ client' = connect_if_needed(client, new_client_ok)
    /\ pc' = "top"
    /\ last_finalized_block' = None /\ block_number' = None
    /\ fetchFailed' = block_number_to_sync
    /\ UNCHANGED << world, start_block, checkpoint, stop_signal,
                    block_number_to_sync, fast, events, idx, attempt, outcome,
                    calls, relayArgs, fails, okEver, okRun, relayLog, relayerLog,
                    fetchLog, resumed, low >>

\* a listener step that does not touch the fetcher
SubstrateListenerStep ==
    \/ SyncStart
    \/ CheckStop
    \/ RouteEvent
    \/ RelayAlwaysOk
    \/ SaveEvent
    \/ BlockDone
    \/ Pace

SubstrateNext ==
    \/ SubstrateListenerStep
    \/ SubstrateHeadError
    \/ SubstrateHeadOk
    \/ SubstrateFetchOk
    \/ SubstrateFetchError

SubstrateSpec == Init /\ [][SubstrateNext]_vars

(* ------------------- the checkpoint files of the listeners ------------- *)
\* listener ids as path text, split at '/': "eth", "sub", "./eth", "./sub"
FileIds ==
    { << << "eth" >> >>, << << "sub" >> >>,
      << << "." >>, << "eth" >> >>, << << "." >>, << "sub" >> >> }

\* format!("data/{}_last_log.bin", id), split at '/'
FilePath(id) ==
    << << "data" >> >> \o SubSeq(id, 1, Len(id) - 1)
        \o << id[Len(id)] \o << "_last_log.bin" >> >>

\* the file a path names: "." segments name the directory they are in
Location(path) == SelectSeq(path, LAMBDA segment : segment # << "." >>)

FileListenerConfigs ==
    [ id : FileIds, chain_id : ChainIds, listener_type : { "ethereum", "substrate" },
      relayers : { << "R1" >> } ]

\* the configurations run() goes on with: validate() answered Ok
ValidatedConfigs ==
    { c \in [ listeners : SeqsUpTo(FileListenerConfigs, MaxListeners),
              relayers : { << [ id |-> "R1", destination_id |-> "D1",
                                relayer_type |-> "ethereum" ] >> } ] :
        validate(c) = "Ok" }

\* the listeners of a validated configuration, none has saved yet
FileInit ==
    /\ config \in ValidatedConfigs
    /\ result = "Ok"
    /\ chain = [b \in Blocks |-> 0]
    /\ relay = "Single"
    /\ start_block = 0
    /\ checkpoint = <<>>
    /\ stop_signal = "empty"
    /\ pc = "files"
    /\ block_number_to_sync = 0
    /\ fast = FALSE
    /\ events = <<>>
    /\ idx = 0
    /\ attempt = 0
    /\ outcome = "none"
    /\ calls = 0
    /\ relayArgs = {}
    /\ fails = 0
    /\ okEver = {}
    /\ okRun = {}
    /\ relayLog = <<>>
    /\ resumed = <<>>
    /\ low = 0
    /\ last_finalized_block = None /\ block_number = None
    /\ relayerLog = <<>>
    /\ fetchLog = <<>>
    /\ fetchFailed = None
    /\ sup = "run"
    /\ exit_code = None
    /\ args = NoArgs
    /\ ret = NoArgs
    /\ threads = NoThreads
    /\ relay_lock = Unlocked
    /\ peer = NoPeer
    /\ keystore = NoKeystore
    /\ undecodable = {}
    /\ files = [ l \in { Location(FilePath(config.listeners[i].id)) :
                          i \in 1..Len(config.listeners) } |-> {} ]
    /\ client = "None"

\* listener i saves a checkpoint: its repository writes its file
FileSave ==
    /\ pc = "files"
    /\ \E i \in 1..Len(config.listeners) :
         files' = [ files EXCEPT ![Location(FilePath(config.listeners[i].id))] = @ \cup {i} ]
    /\ UNCHANGED << threads, relay_lock, peer, keystore, undecodable, client, chain, relay,
                    sup, exit_code, config, result, args, ret, listenerVars >>

FileNext == FileSave

FileSpec == FileInit /\ [][FileNext]_vars

(* ======================= properties of the listener ==================== *)

\* every pay-in event of the source chain
AllEvents == UNION { { BlockPayInEvents(b)[i] : i \in 1..chain[b] } : b \in Blocks }

\* checkpoint c is at or beyond event id: a later block, the completed
\* block of the event, or an event of the same block that is not before it
AtOrBeyond(c, id) ==
    \/ c.block_num > id.block_num
    \/ /\ c.block_num = id.block_num
       /\ (just_block_num(c) \/ ~lt(c, from_log_id(id)))

\* checkpoint a is below checkpoint b when block-complete(N) is taken to be
\* above every event of block N
Below(a, b) ==
    \/ a.block_num < b.block_num
    \/ /\ a.block_num = b.block_num
       /\ ~just_block_num(a)
       /\ (just_block_num(b) \/ lt(a, b))

Succeeded(o) == o \in {"Ok", "AlreadyRelayed"}

\* the run began by jumping to start_block over the stored checkpoint
Overridden == Len(resumed) = 1 /\ start_block > resumed[1].block_num

\* C1: across listener steps, kills and restarts, the stored checkpoint is
\* never at or beyond an event with an applicable relayer (in the range of
\* blocks the listener was started on) unless a relay call for that event
\* has returned Ok or AlreadyRelayed.
C1_NoAdvanceWithoutSuccess ==
    \A ev \in AllEvents :
        ( /\ ev.id.block_num >= low
          /\ MaybeRelayer(ev) # NoRelayer
          /\ Len(checkpoint) = 1
          /\ AtOrBeyond(checkpoint[1], ev.id) )
        => ev.id \in okEver

\* C1 witness: the second event of a block failed for good while the
\* checkpoint stands at the first, relayed, event.
C1_Witness ==
    /\ pc = "failed"
    /\ idx = 2
    /\ Len(checkpoint) = 1
    /\ MaybeRelayer(events[1]) # NoRelayer
    /\ AtOrBeyond(checkpoint[1], events[1].id)
    /\ events[1].id \in okEver
    /\ ~AtOrBeyond(checkpoint[1], events[2].id)

C3_Claim ==
    ( /\ Len(resumed) = 1
      /\ ~just_block_num(resumed[1])
      /\ ~Overridden )
    => \A i \in 1..Len(relayLog) : lt(resumed[1], from_log_id(relayLog[i]))

\* C4 as stated: no save stores a checkpoint smaller than the one it
\* overwrites (runs started by a start_block override aside).
C4_Claim ==
    [][ ( /\ Len(checkpoint) = 1
          /\ checkpoint' # checkpoint
          /\ ~Overridden )
        => ~Below(checkpoint'[1], checkpoint[1]) ]_vars

\* C5: within one run the ids handed to relay (retries of one event counted
\* once) are strictly increasing.
C5_RelayOrderIncreasing ==
    \A i \in 1..Len(relayLog) : \A j \in 1..Len(relayLog) :
        i < j => lt(from_log_id(relayLog[i]), from_log_id(relayLog[j]))

\* C5 witness: events of two blocks were relayed in one run, the last one
\* being retried.
C5_Witness ==
    /\ Len(relayLog) >= 3
    /\ relayLog[1].block_num # relayLog[Len(relayLog)].block_num
    /\ calls >= 2

\* C6: once relay returned Ok or AlreadyRelayed for an event, the next thing
\* the listener does (unless the process is killed) is to save the
\* event-partial checkpoint of that event; no relay call comes before it.
C6_SaveFollowsSuccess ==
    [][ ( /\ pc = "save"
          /\ Succeeded(outcome)
          /\ pc' # "init" )
        => /\ relayLog' = relayLog
           /\ calls' = calls
           /\ \/ checkpoint' = << from_log_id(events[idx].id) >>
              \/ pc' = pc /\ checkpoint' = checkpoint ]_vars

\* C6 witness: the last event of a block was answered AlreadyRelayed and its
\* checkpoint is stored.
C6_Witness ==
    /\ pc = "block_done"
    /\ outcome = "AlreadyRelayed"
    /\ checkpoint = << from_log_id(events[idx].id) >>

\* C7: relay is called at most 10 times for an event in a run; when all ten
\* calls fail with TransportError / WatchError no further call is made, sync
\* fails, the checkpoint is not at or beyond the event and still is the one
\* of the previous event of the block.
C7_RetryBudget ==
    /\ calls <= 10
    /\ \A i \in 1..Len(relayLog) : \A j \in 1..Len(relayLog) :
           i # j => relayLog[i] # relayLog[j]
    /\ (pc = "relay" /\ fails = 10) => ~ENABLED RelayCall
    /\ (pc = "failed" /\ outcome # "Other") =>
           /\ calls = 10
           /\ fails = 10
           /\ Len(checkpoint) = 1 => ~AtOrBeyond(checkpoint[1], events[idx].id)
           /\ idx > 1 => checkpoint = << from_log_id(events[idx - 1].id) >>

\* C7 witness: the second event of a block used up its ten attempts.
C7_Witness ==
    /\ pc = "failed"
    /\ outcome = "WatchError"
    /\ fails = 10
    /\ idx = 2
    /\ MaybeRelayer(events[1]) # NoRelayer

\* C8: after k <= 9 TransportError / WatchError results a further call is
\* still made; when it returns Ok exactly k + 1 calls were made, the listener
\* has not failed, it saves the event's checkpoint, goes on to the next event
\* and after the last event saves the block-complete checkpoint.
C8_RetryThenOk ==
    /\ [] ( /\ (pc = "relay" /\ fails <= 9) => ENABLED RelayCall
            /\ (pc = "save" /\ outcome = "Ok") => (calls = fails + 1 /\ fails <= 9)
            /\ pc = "failed" => (outcome = "Other" \/ fails >= 10) )
    /\ [][ (pc = "save" /\ outcome = "Ok" /\ pc' \notin {"init", "save"})
           => /\ checkpoint' = << from_log_id(events[idx].id) >>
              /\ pc' = IF idx < Len(events) THEN "event" ELSE "block_done" ]_vars
    /\ [][ (pc = "block_done" /\ pc' \notin {"init", "block_done"})
           => checkpoint' = << from_block_num(block_number_to_sync) >> ]_vars

\* C8 witness: nine failures, then Ok on the tenth call.
C8_Witness ==
    /\ pc = "save"
    /\ outcome = "Ok"
    /\ fails = 9
    /\ calls = 10

\* C9 as stated: when relay returns Other the listener fails after exactly
\* one relay call for that event.
C9_Original ==
    outcome = "Other" => (pc = "failed" /\ calls = 1)

\* C9 amended: when relay returns Other the listener fails at once: that call
\* was the (k+1)-th for the event after k TransportError / WatchError
\* results, the checkpoint is not at the event, and until the process is
\* restarted there is no further relay call, fetch or save.
C9_OtherIsFatal ==
    /\ [] ( outcome = "Other" =>
              /\ pc = "failed"
              /\ calls = fails + 1
              /\ Len(checkpoint) = 1 => ~AtOrBeyond(checkpoint[1], events[idx].id) )
    /\ [][ (pc = "failed" /\ pc' # "init")
           => UNCHANGED << pc, checkpoint, relayLog, calls, events,
                           block_number_to_sync, okEver >> ]_vars

\* C9 witness: Other came after two retried failures.
C9_Witness ==
    /\ outcome = "Other"
    /\ pc = "failed"
    /\ fails = 2
    /\ calls = 3

\* C10 as stated: when relay returns AlreadyRelayed exactly one relay call
\* was made for that event and the listener goes on.
C10_Original ==
    outcome = "AlreadyRelayed" => (pc # "failed" /\ calls = 1)

\* C10 amended: AlreadyRelayed ends the retry loop like Ok does: no further
\* call is made for the event (k + 1 calls after k retried failures), the
\* listener does not fail, saves the event's checkpoint and goes on to the
\* next event or to the end of the block.
C10_AlreadyRelayedIsSuccess ==
    /\ [] ( outcome = "AlreadyRelayed" =>
              /\ pc \in {"save", "event", "block_done"}
              /\ calls = fails + 1
              /\ pc = "save" => events[idx].id \in okRun )
    /\ [][ (pc = "save" /\ outcome = "AlreadyRelayed" /\ pc' \notin {"init", "save"})
           => /\ checkpoint' = << from_log_id(events[idx].id) >>
              /\ calls' = calls
              /\ pc' = IF idx < Len(events) THEN "event" ELSE "block_done" ]_vars

\* C10 witness: AlreadyRelayed on the second call, checkpoint saved, the
\* listener stands at the next event of the block.
C10_Witness ==
    /\ pc = "event"
    /\ outcome = "AlreadyRelayed"
    /\ calls = 2
    /\ checkpoint = << from_log_id(events[idx - 1].id) >>

\* the event of the source chain that carries this id
EventOf(id) == CHOOSE ev \in AllEvents : ev.id = id

\* the event has no destination key, or one the Relay::Multi map lacks
NoMapEntry(event) ==
    \/ event.maybe_destination_id = NoDestination
    \/ event.maybe_destination_id \notin MultiKeys

\* C11: with a single route every relay call goes to the one relayer whatever
\* the key of the event; with a multi route a relay call goes to the map
\* entry of the event's key, and an event without key or with a key missing
\* from the map gets no relay call, no retry and no failure: the listener
\* moves on to save its checkpoint.
C11_Routing ==
    /\ [] ( /\ Len(relayerLog) = Len(relayLog)
            /\ \A i \in 1..Len(relayLog) :
                  IF relay = "Single"
                  THEN relayerLog[i] = "R"
                  ELSE /\ ~NoMapEntry(EventOf(relayLog[i]))
                       /\ relayerLog[i] = EventOf(relayLog[i]).maybe_destination_id
            /\ ( /\ relay = "Single"
                 /\ pc = "save"
                 /\ calls = 0 )
               => /\ Len(checkpoint) = 1
                  /\ ~lt(checkpoint[1], from_log_id(events[idx].id))
            /\ ( /\ relay = "Multi"
                 /\ pc \in {"relay", "save", "failed"}
                 /\ NoMapEntry(events[idx]) )
               => (pc = "save" /\ calls = 0 /\ fails = 0 /\ attempt = 0) )
    /\ [][ ( /\ relay = "Multi"
             /\ pc = "event"
             /\ NoMapEntry(events[idx])
             /\ pc' \notin {"init", "event"} )
           => /\ pc' = "save"
              /\ UNCHANGED << relayLog, relayerLog, okEver >> ]_vars

\* C11 witness: multi route, a block whose first event has no key and whose
\* second event has a key of the map: only the second was relayed, after
\* the one event of the block before.
C11_Witness ==
    /\ relay = "Multi"
    /\ pc = "block_done"
    /\ Len(events) = 2
    /\ events[1].maybe_destination_id = NoDestination
    /\ events[2].id \in okRun
    /\ events[1].id \notin okEver
    /\ Len(fetchLog) = 2
    /\ relayerLog = << "A", "A" >>

\* the events of blocks start_block..MaxBlock that the route has a relayer for
RoutableFromStart ==
    { ev \in AllEvents :
        /\ ev.id.block_num >= start_block
        /\ (relay = "Single" \/ ~NoMapEntry(ev)) }

\* C12: without initial checkpoint, with the blocks start_block..MaxBlock
\* finalized and a relayer that always returns Ok, the listener ends up with
\* block-complete(MaxBlock) as its checkpoint for good, having called relay
\* once for each of the n routable events of these blocks and for nothing
\* else.
C12_RoundTrip ==
    /\ [] (calls <= 1)
    /\ [] (\A i \in 1..Len(relayLog) : \A j \in 1..Len(relayLog) :
               i # j => relayLog[i] # relayLog[j])
    /\ <>[] ( /\ checkpoint = << from_block_num(MaxBlock) >>
              /\ Len(relayLog) = Cardinality(RoutableFromStart)
              /\ { relayLog[i] : i \in 1..Len(relayLog) }
                   = { ev.id : ev \in RoutableFromStart } )

\* C12 witness: started at block 0 without checkpoint, all blocks done, three
\* events relayed with one call each.
C12_Witness ==
    /\ Len(resumed) = 0
    /\ start_block = 0
    /\ pc = "top"
    /\ checkpoint = << from_block_num(MaxBlock) >>
    /\ Len(relayLog) = 3
    /\ Len(relayLog) = Cardinality(RoutableFromStart)

\* the block a run has to begin with, given the checkpoint it found
FirstBlock(cp, sb) ==
    CASE Len(cp) = 0 -> sb
      [] Len(cp) = 1 /\ sb > cp[1].block_num -> sb
      [] Len(cp) = 1 /\ sb <= cp[1].block_num
           /\ cp[1].tx_idx = None /\ cp[1].log_idx = None -> cp[1].block_num + 1
      [] OTHER -> cp[1].block_num

\* C13: the block the listener starts with, and the first block it fetches,
\* is start_block without checkpoint or when start_block is above the
\* checkpoint's block, the block after a block-complete checkpoint, and the
\* block of an event-partial checkpoint.
C13_FirstBlock ==
    /\ [][ (pc = "init" /\ pc' = "top")
           => block_number_to_sync' = FirstBlock(checkpoint, start_block) ]_vars
    /\ [] ( Len(fetchLog) >= 1 => fetchLog[1] = FirstBlock(resumed, start_block) )

\* C13 witness: a run resumed from an event-partial checkpoint fetched the
\* block of that checkpoint first.
C13_Witness ==
    /\ Len(resumed) = 1
    /\ resumed[1].log_idx # None
    /\ start_block <= resumed[1].block_num
    /\ Len(fetchLog) >= 1
    /\ fetchLog[1] = resumed[1].block_num

\* C14: the blocks whose events a run fetched are consecutive and increasing
\* from the block the run began with: none below it, none left out, none
\* twice; the block being fetched is the one after the last fetched.
C14_ConsecutiveBlocks ==
    /\ \A i \in 1..Len(fetchLog) :
           fetchLog[i] = FirstBlock(resumed, start_block) + i - 1
    /\ pc = "fetch" =>
           block_number_to_sync = FirstBlock(resumed, start_block) + Len(fetchLog)

\* C14 witness: the stored checkpoint was in block 0, the run was started
\* with start_block above it and fetched that block only.
C14_Witness ==
    /\ Len(resumed) = 1
    /\ resumed[1].block_num = 0
    /\ start_block = MaxBlock
    /\ fetchLog = << MaxBlock >>
    /\ pc = "top"

\* C15: a head query that fails, yields nothing or yields a block below the
\* next block to sync is followed, in that cycle, by no fetch, no relay
\* call, no save and no change of the next block; the events of a block are
\* fetched only when the head reported in the same cycle is at or above it.
C15_WaitsForFinalizedHead ==
    /\ [][ ( /\ pc = "head"
             /\ pc' # "init"
             /\ \/ last_finalized_block' = None
                \/ last_finalized_block' < block_number_to_sync )
           => /\ pc' \in {"head", "top", "pace"}
              /\ UNCHANGED << events, fetchLog, relayLog, calls, okEver,
                              checkpoint, block_number_to_sync >> ]_vars
    /\ [][ ( /\ pc = "pace"
             /\ last_finalized_block # None
             /\ pc' # "init" )
           => /\ pc' \in {"pace", "top"}
              /\ UNCHANGED << events, fetchLog, relayLog, calls, okEver,
                              checkpoint, block_number_to_sync >> ]_vars
    /\ [] ( pc = "fetch" =>
              /\ last_finalized_block # None
              /\ block_number_to_sync <= last_finalized_block )
    /\ [][ fetchLog' # fetchLog /\ pc' # "init"
           => /\ last_finalized_block # None
              /\ fetchLog' = Append(fetchLog, block_number_to_sync)
              /\ block_number_to_sync <= last_finalized_block ]_vars

\* C15 witness: block 0 is done and the head reported in this cycle is still
\* block 0: the listener waits.
C15_Witness ==
    /\ pc = "pace"
    /\ fetchLog = << 0 >>
    /\ block_number_to_sync = 1
    /\ last_finalized_block = 0
    /\ checkpoint = << from_block_num(0) >>

\* C16 as stated: once the stop signal is delivered the listener ends in
\* Stopped.
C16_Original == (stop_signal = "sent") ~> (pc = "stopped")

\* C16 amended: sync returns Ok only at the top of a cycle and only on a
\* delivered signal; a signal delivered during a relay attempt leaves the
\* next relay call enabled; when the listener stops, every block it fetched
\* is committed as block-complete and nothing is in flight; and after the
\* signal is delivered the listener ends, in Stopped at the next cycle top
\* or in Failed when the work in flight fails first.
C16_StopAtCycleTop ==
    /\ [][ (pc # "stopped" /\ pc' = "stopped")
           => /\ pc = "top"
              /\ stop_signal = "sent"
              /\ UNCHANGED << checkpoint, relayLog, fetchLog, okEver,
                              block_number_to_sync >> ]_vars
    /\ [] ( (stop_signal = "sent" /\ pc = "relay" /\ attempt <= MaxAttempts)
            => ENABLED RelayCall )
    /\ [] ( pc = "stopped" =>
              /\ events = <<>>
              /\ Len(fetchLog) >= 1 =>
                    checkpoint = << from_block_num(fetchLog[Len(fetchLog)]) >> )
    /\ (stop_signal = "sent") ~> (pc \in {"stopped", "failed"})

\* C16 witness: stopped after block 0 with its events relayed and its
\* block-complete checkpoint stored.
C16_Witness ==
    /\ pc = "stopped"
    /\ fetchLog = << 0 >>
    /\ Len(relayLog) >= 1
    /\ checkpoint = << from_block_num(0) >>

\* C17 as stated: the worker keeps the sending end of the listener's stop
\* channel while the listener runs, and a shutdown of the worker ends with
\* the listener in Stopped and joined.
C17_Claim ==
    /\ (sup = "run" /\ pc \notin {"init", "stopped", "failed"})
          => stop_signal # "closed"
    /\ sup = "killed" => pc = "stopped"
    /\ sup = "exited" => pc \in {"stopped", "failed"}

\* C18 as stated: when the listener has ended in Failed and the worker
\* process has ended, its exit code is not zero.
C18_Claim ==
    (sup = "exited" /\ pc = "failed") => exit_code # 0

(* ===================== properties of the validation ==================== *)
Distinct(seq) ==
    \A i \in 1..Len(seq) : \A j \in 1..Len(seq) : i < j => seq[i] # seq[j]

UsedRelayerIds(c) ==
    { id \in RelayerIds :
        \E i \in 1..Len(c.listeners) :
            \E k \in 1..Len(c.listeners[i].relayers) : c.listeners[i].relayers[k] = id }

DefinedRelayerIds(c) == { c.relayers[i].id : i \in 1..Len(c.relayers) }

TypeSet == {"ethereum", "substrate"}

V1(c) == Distinct([i \in 1..Len(c.listeners) |-> c.listeners[i].id])

V2(c) == Distinct([i \in 1..Len(c.listeners) |-> c.listeners[i].chain_id])

V3(c) == \A i \in 1..Len(c.listeners) : c.listeners[i].relayers # <<>>

V4(c) == UsedRelayerIds(c) \subseteq DefinedRelayerIds(c)

V5(c) == Distinct([i \in 1..Len(c.relayers) |-> c.relayers[i].id])

V6(c) == Distinct([i \in 1..Len(c.relayers) |-> c.relayers[i].destination_id])

V7(c) == DefinedRelayerIds(c) \subseteq UsedRelayerIds(c)

V8(c) ==
    /\ \A i \in 1..Len(c.listeners) : c.listeners[i].listener_type \in TypeSet
    /\ \A i \in 1..Len(c.relayers) : c.relayers[i].relayer_type \in TypeSet

\* the rule an error variant names is violated by the configuration
NamesViolatedRule(err, c) ==
    CASE err = "ListenerIdNotUnique" -> ~V1(c)
      [] err = "ListenerChainIdNotUnique" -> ~V2(c)
      [] err = "ListenerRelayersEmpty" -> ~V3(c)
      [] err = "ListenerRelayerNotDefined" -> ~V4(c)
      [] err = "RelayerIdNotUnique" -> ~V5(c)
      [] err = "RelayerDestinationIdNotUnique" -> ~V6(c)
      [] err = "RelayerNotUsed" -> ~V7(c)
      [] err = "ListenerTypeUnknown" ->
            \E i \in 1..Len(c.listeners) : c.listeners[i].listener_type \notin TypeSet
      [] err = "RelayerTypeUnknown" ->
            \E i \in 1..Len(c.relayers) : c.relayers[i].relayer_type \notin TypeSet
      [] OTHER -> FALSE

\* C19 as stated: a configuration in which two listeners share a chain_id is
\* rejected, and with the chain-id error when no other rule is violated.
C19_Claim ==
    (result # "none" /\ ~V2(config))
    => /\ result # "Ok"
       /\ ( V1(config) /\ V3(config) /\ V4(config) /\ V5(config)
            /\ V6(config) /\ V7(config) /\ V8(config) )
          => result = "ListenerChainIdNotUnique"

\* C20: validate returns an error whenever one of V1, V3, V4, V5, V6, V7, V8
\* is violated, the error names a rule the configuration violates, and
\* validate returns Ok when V1 to V8 all hold.
C20_ValidateRules ==
    result # "none" =>
        /\ ( ~V1(config) \/ ~V3(config) \/ ~V4(config) \/ ~V5(config)
             \/ ~V6(config) \/ ~V7(config) \/ ~V8(config) )
           => result # "Ok"
        /\ result # "Ok" => NamesViolatedRule(result, config)
        /\ ( V1(config) /\ V2(config) /\ V3(config) /\ V4(config) /\ V5(config)
             /\ V6(config) /\ V7(config) /\ V8(config) )
           => result = "Ok"

\* C20 witness: two relayers are defined, the two listeners use one of them,
\* every other rule holds, and validate answered RelayerNotUsed.
C20_Witness ==
    /\ result = "RelayerNotUsed"
    /\ Len(config.listeners) = 2
    /\ Len(config.relayers) = 2
    /\ V1(config) /\ V2(config) /\ V3(config) /\ V4(config)
    /\ V5(config) /\ V6(config) /\ V8(config)
    /\ ~V7(config)

(* =================== properties of the checkpoint order ================ *)
Compared == pc = "order" /\ ret # NoArgs

\* C21 as stated: block-complete(N) compares greater than every
\* event-partial checkpoint of block N and less than every checkpoint of
\* block N + 1.
C21_Claim ==
    Compared =>
        LET a == args[1]
            b == args[2]
        IN  /\ ( /\ a.tx_idx = None /\ a.log_idx = None
                 /\ b.tx_idx # None /\ b.log_idx # None
                 /\ a.block_num = b.block_num )
               => (ret.ab = "Greater" /\ ret.ba = "Less")
            /\ ( /\ a.tx_idx = None /\ a.log_idx = None
                 /\ b.block_num = a.block_num + 1 )
               => (ret.ab = "Less" /\ ret.ba = "Greater")

\* (block_num, tx_idx, log_idx) with -1 standing for a missing index
LexLess(a, b) ==
    \/ a.block_num < b.block_num
    \/ a.block_num = b.block_num /\ a.tx_idx < b.tx_idx
    \/ a.block_num = b.block_num /\ a.tx_idx = b.tx_idx /\ a.log_idx < b.log_idx

\* C22: on the checkpoints the listener creates the comparison always
\* answers, Less and Greater mirror each other, Equal means equal, Less is
\* transitive, and Less is the lexicographic order on (block_num, tx_idx,
\* log_idx) with a missing index below every index.
C22_TotalOrder ==
    Compared =>
        LET a == args[1]
            b == args[2]
            c == args[3]
        IN  /\ ret.ab \in {"Less", "Equal", "Greater"}
            /\ (ret.ab = "Less") <=> (ret.ba = "Greater")
            /\ (ret.ab = "Equal") <=> (a = b)
            /\ (ret.ab = "Less" /\ ret.bc = "Less") => ret.ac = "Less"
            /\ (ret.ab = "Less") <=> LexLess(a, b)
            /\ ( /\ a.block_num = b.block_num
                 /\ a.tx_idx = None /\ a.log_idx = None
                 /\ b.tx_idx # None )
               => ret.ab = "Less"

\* C22 witness: block-only at block 0, an event of block 0 and an event of
\* block 1 were compared: Less, Less and Less.
C22_Witness ==
    /\ Compared
    /\ args[1] = from_block_num(0)
    /\ args[2] = SyncCheckpoint(0, 0, 1)
    /\ args[3] = SyncCheckpoint(1, 0, 0)
    /\ ret.ab = "Less"
    /\ ret.bc = "Less"
    /\ ret.ac = "Less"

(* =================== properties of the listener contexts =============== *)
Prepared == pc = "context" /\ ret # NoArgs

\* positions of the listeners of the requested type, in configuration order
RequestedListeners ==
    { i \in 1..Len(args.config.listeners) :
        args.config.listeners[i].listener_type = args.listener_type }

\* the configured relayers a listener names
NamedRelayers(l) ==
    { r \in { args.config.relayers[i] : i \in 1..Len(args.config.relayers) } :
        \E k \in 1..Len(l.relayers) : l.relayers[k] = r.id }

C24_FinalizationGap ==
    [][ /\ HeadOk =>
             last_finalized_block'
               = IF block_number' >= FinalizationGap
                 THEN block_number' - FinalizationGap ELSE None
        /\ FetchOk =>
             /\ block_number # None
             /\ block_number >= block_number_to_sync + FinalizationGap ]_vars

\* C24 witness: the node head is exactly MaxBlock + g and the listener is
\* about to fetch block MaxBlock, having fetched the blocks below it.
C24_Witness ==
    /\ pc = "fetch"
    /\ block_number_to_sync = MaxBlock
    /\ block_number = MaxBlock + FinalizationGap
    /\ last_finalized_block = MaxBlock
    /\ Len(fetchLog) > 0

(* ==================== properties of Relayer::relay ===================== *)
RelayReturned == pc = "relay_call" /\ ret # NoArgs

\* C25: when the transaction was submitted and its confirmation or
\* finalization was not observed, relay returns WatchError and the listener
\* goes round the relay loop again instead of failing.
C25_Claim ==
    (RelayReturned /\ ret.submitted /\ ~ret.confirmed) =>
        /\ ret.result = "WatchError"
        /\ AfterRelay(ret.result) = "relay"

\* C28: the ethereum relayer called with data that is not 20 bytes long
\* returns Other and submits no vote proposal.
C28_Claim ==
    (RelayReturned /\ args.relayer = "ethereum" /\ args.data_len # 20) =>
        /\ ret.result = "Other"
        /\ ~ret.submitted

(* ================== properties of the relayer's lock =================== *)
\* threads between taking the lock and the end of their watch
InFlight == { t \in Threads : threads[t].at \in {"submit", "watch"} }

\* C26: at most one thread is between sign-and-submit and the end of its
\* watch, that thread holds the relayer's lock, and a thread starts to
\* submit only when no other thread is in flight.
C26_OneInFlight ==
    [][ /\ Cardinality(InFlight') <= 1
        /\ \A t \in InFlight' : relay_lock' = t
        /\ \A t \in Threads :
              (threads[t].at = "lock" /\ threads'[t].at = "submit")
                 => InFlight = {} ]_vars

\* C26 witness: one thread watches its transaction while another, whose
\* earlier call was relayed, waits for the lock.
C26_Witness ==
    /\ pc = "relayers"
    /\ \E t \in Threads : \E u \in Threads :
          /\ threads[t].at = "watch"
          /\ relay_lock = t
          /\ threads[u].at = "lock"
          /\ threads[u].result = "Ok"

(* ================== properties of the inter-cycle sleep ================ *)
\* C27 as stated: after a block is processed the sleep is skipped exactly
\* when finalized_head - next_block > 1, next_block being the value after
\* the increment.
C27_Original ==
    [][ BlockDone =>
          (~Sleeps(fast') <=>
             last_finalized_block' - block_number_to_sync' > 1) ]_vars

\* C27 amended: after a block is processed the sleep is skipped exactly when
\* finalized_head - processed_block > 1, processed_block being the block
\* just completed (next_block before the increment), and taken otherwise.
C27_SleepSkipped ==
    [][ BlockDone =>
          /\ block_number_to_sync' = block_number_to_sync + 1
          /\ last_finalized_block' = last_finalized_block
          /\ ~Sleeps(fast') <=>
                last_finalized_block - block_number_to_sync > 1 ]_vars

\* C27 witness: block 0 was processed with the finalized head at 2; the
\* head is one block beyond the next block and the sleep is skipped.
C27_Witness ==
    /\ pc = "pace"
    /\ block_number_to_sync = 1
    /\ fetchLog # << >>
    /\ fetchLog[Len(fetchLog)] = 0
    /\ last_finalized_block - block_number_to_sync = 1
    /\ ~Sleeps(fast)

(* ================= properties of hm_importRelayerKey =================== *)
\* the signature of the request is the import signer's over its payload
SignatureVerifies(req) ==
    req.signature = Signed("import_signer", req.payload)

\* the key of the request was sealed for the worker's shielding key
Decryptable(req) == req.payload.key.to = "shielding_key"

\* C30: a parsed request whose signature does not verify is answered with
\* the unauthorized code, whatever its ciphertext, and leaves vault and
\* files as they were; one that verifies and cannot be decrypted leaves
\* them as they were too; the keystore changes only for a request passing
\* both, and then the vault holds the decrypted key under the payload id
\* and nothing else in it has changed.
C30_ImportRelayerKey ==
    [][ (pc = "rpc" /\ args' # NoArgs) =>
          LET req == args' IN
          /\ (req.parses /\ ~SignatureVerifies(req)) =>
                 /\ ret' = UNAUTHORIZED_REQUEST_CODE
                 /\ keystore' = keystore
          /\ (req.parses /\ SignatureVerifies(req) /\ ~Decryptable(req)) =>
                 /\ ret' = SHIELDED_VALUE_DECRYPTION_ERROR_CODE
                 /\ keystore' = keystore
          /\ keystore' # keystore =>
                 /\ req.parses /\ SignatureVerifies(req) /\ Decryptable(req)
          /\ (req.parses /\ SignatureVerifies(req) /\ Decryptable(req)) =>
                 /\ keystore'.vault
                      = [ keystore.vault EXCEPT ![req.payload.id] = req.payload.key.body ]
                 /\ \A i \in KeyIds \ {req.payload.id} :
                       keystore'.files[i] = keystore.files[i]
                 /\ ret' = NoError => keystore'.files[req.payload.id] = req.payload.key.body
       ]_vars

\* C30 witness: a key was imported under K1, and the request just served,
\* signed by somebody else and not decryptable, was refused as unauthorized.
C30_Witness ==
    /\ pc = "rpc"
    /\ args # NoArgs
    /\ keystore.vault["K1"] = "k1"
    /\ keystore.files["K1"] = "k1"
    /\ keystore.vault["K2"] = NoKey
    /\ args.parses
    /\ args.payload.id = "K2"
    /\ args.signature.by = "mallory"
    /\ ~Decryptable(args)
    /\ ret = UNAUTHORIZED_REQUEST_CODE

C31_SameArguments ==
    /\ calls = 0 => relayArgs = {}
    /\ (calls > 0 /\ pc \in {"relay", "save", "failed"}) =>
          relayArgs = { << events[idx].amount, events[idx].nonce,
                           events[idx].resource_id, events[idx].data,
                           ListenerChainId >> }

\* C31 witness: an event of block 1 was relayed at the third call, after a
\* TransportError and a WatchError or two of one kind.
C31_Witness ==
    /\ pc = "save"
    /\ outcome = "Ok"
    /\ calls = 3
    /\ fails = 2
    /\ events[idx].id.block_num = 1
    /\ Cardinality(relayArgs) = 1

(* ============ properties of blocks that do not decode ================== *)
\* C33: no event of a block holding an undecodable deposit log is ever
\* relayed, no checkpoint of such a block, event-partial or block-complete,
\* is ever stored, and a run that has come to such a block stays at it.
C33_UndecodableBlock ==
    [][ /\ \A b \in undecodable :
              /\ \A e \in okEver' : e.block_num # b
              /\ \A k \in 1..Len(relayLog') : relayLog'[k].block_num # b
              /\ Len(checkpoint') = 1 => get_block_num(checkpoint'[1]) # b
        /\ (block_number_to_sync \in undecodable /\ pc # "init" /\ pc' # "init")
              => block_number_to_sync' = block_number_to_sync
      ]_vars

\* C33 witness: block 0 was synced and its events relayed, block 1 holds an
\* undecodable log, and the fetch of block 1 has ended the thread.
C33_Witness ==
    /\ pc = "panicked"
    /\ undecodable = {1}
    /\ block_number_to_sync = 1
    /\ chain[0] > 0
    /\ checkpoint = << from_block_num(0) >>
    /\ okEver # {}

(* ================= properties of a failed fetch ======================== *)
\* C32: a failed fetch of next_block changes neither next_block nor the
\* stored checkpoint and makes no relay call; the next fetch comes only after
\* the stop check and the head query and is a fetch of the same block; a
\* block-complete checkpoint of b is saved only when the last successful
\* fetch was the fetch of b.
C32_FetchRetried ==
    [][ /\ (pc = "fetch" /\ pc' = "top") =>
              /\ block_number_to_sync' = block_number_to_sync
              /\ checkpoint' = checkpoint
              /\ calls' = calls /\ relayLog' = relayLog /\ relayerLog' = relayerLog
              /\ fetchLog' = fetchLog
              /\ fetchFailed' = block_number_to_sync
        /\ (pc' = "fetch" /\ pc # "fetch") => pc = "head"
        /\ (pc' = "head" /\ pc # "head") => pc = "top"
        /\ (pc' = "fetch" /\ fetchFailed # None /\ Len(fetchLog) = 0) =>
              block_number_to_sync' = fetchFailed
        /\ (pc' = "fetch" /\ fetchFailed # None /\ Len(fetchLog) > 0
                /\ fetchLog[Len(fetchLog)] < fetchFailed) =>
              block_number_to_sync' = fetchFailed
        /\ (pc' # "init" /\ block_number_to_sync' # block_number_to_sync /\ pc # "init") =>
              /\ Len(fetchLog) > 0
              /\ fetchLog[Len(fetchLog)] = block_number_to_sync
              /\ checkpoint' = << BlockCheckpoint(block_number_to_sync) >>
              /\ block_number_to_sync' = block_number_to_sync + 1
        /\ (checkpoint' # checkpoint /\ Len(checkpoint') = 1 /\ just_block_num(checkpoint'[1])) =>
              /\ Len(fetchLog) > 0
              /\ fetchLog[Len(fetchLog)] = get_block_num(checkpoint'[1])
      ]_vars

\* C32 witness: the fetch of block 1 failed, block 1 was then fetched and
\* marked complete.
C32_Witness ==
    /\ pc = "pace"
    /\ fetchFailed = 1
    /\ fetchLog = << 0, 1 >>
    /\ checkpoint = << BlockCheckpoint(1) >>
    /\ block_number_to_sync = 2

(* ================ properties of the order of the rules ================= *)
\* the error of the first rule, in the order of the claim, that c violates
FirstViolated(c) ==
    IF ~V1(c) THEN "ListenerIdNotUnique"
    ELSE IF \E i \in 1..Len(c.listeners) : c.listeners[i].listener_type \notin TypeSet
    THEN "ListenerTypeUnknown"
    ELSE IF ~V3(c) THEN "ListenerRelayersEmpty"
    ELSE IF ~V5(c) THEN "RelayerIdNotUnique"
    ELSE IF \E i \in 1..Len(c.relayers) : c.relayers[i].relayer_type \notin TypeSet
    THEN "RelayerTypeUnknown"
    ELSE IF ~V6(c) THEN "RelayerDestinationIdNotUnique"
    ELSE IF ~V4(c) THEN "ListenerRelayerNotDefined"
    ELSE IF ~V7(c) THEN "RelayerNotUsed"
    ELSE "Ok"

\* C34: validate answers with the error of the first violated rule in the
\* order listener ids, listener type, listener relayer list, relayer ids,
\* relayer type, destination ids, referenced relayer defined, defined relayer
\* used; so an undefined referenced relayer and a duplicate destination id
\* are both reported before an unused relayer.
C34_FirstViolatedRule ==
    result # "none" =>
        /\ result = FirstViolated(config)
        /\ (~V4(config) \/ ~V6(config)) => result # "RelayerNotUsed"

\* C34 witness: two relayers share a destination id, one of them is used by
\* no listener, every earlier rule holds, and validate answered with the
\* destination error.
C34_Witness ==
    /\ result = "RelayerDestinationIdNotUnique"
    /\ ~V6(config)
    /\ ~V7(config)
    /\ V4(config)
    /\ Len(config.relayers) = 2
    /\ Len(config.listeners) = 1

(* ================= properties of the checkpoint files ================== *)
\* C35 as stated: no checkpoint file of a validated configuration is ever
\* written by two listeners.
C35_Claim ==
    pc = "files" => \A l \in DOMAIN files : Cardinality(files[l]) <= 1

(* ================ properties of the substrate fetcher ================== *)
\* C39: events are fetched only with an established client: the fetch
\* follows a head query that succeeded in the same cycle, a client once
\* established is kept, and so every answer Ok of the fetch carries the
\* events of the block and never the empty list of the branch without a
\* client.
C39_ClientAtFetch ==
    [][ /\ pc' = "fetch" => (pc = "head" /\ client' = "Some" /\ last_finalized_block' # None)
        /\ pc = "fetch" => client = "Some"
        /\ client = "Some" => client' = "Some"
        /\ (pc = "fetch" /\ pc' \in {"event", "block_done"}) =>
              /\ Len(events') = chain[block_number_to_sync]
              /\ events' = BlockPayInEvents(block_number_to_sync)
      ]_vars

\* C39 witness: a head query connected, a fetch of block 1 failed, and the
\* events of block 1 were fetched in a later cycle over the client kept.
C39_Witness ==
    /\ pc = "event"
    /\ client = "Some"
    /\ fetchFailed = 1
    /\ fetchLog = << 0, 1 >>
    /\ Len(events) = chain[1]
    /\ chain[1] > 0

(* ================ properties of a dropped stop sender ================== *)
\* C38: after the sender of the stop channel was dropped without a send the
\* listener never returns Ok: the stop check at the top of the cycle passes
\* on to the head query, the channel stays closed for the rest of the run,
\* and the listener does not come to Stopped.
C38_DroppedSenderIgnored ==
    [][ (stop_signal = "closed" /\ pc # "stopped") =>
          /\ pc' # "stopped"
          /\ pc = "top" => (ENABLED CheckStop /\ pc' \in {"head", "init"})
          /\ stop_signal' = "closed" \/ pc' = "init"
      ]_vars

\* C38 witness: the sender is dropped, blocks 0 and 1 were fetched, an
\* event was relayed, block 0 is stored as complete or passed, and the run
\* has ended by failing.
C38_Witness ==
    /\ stop_signal = "closed"
    /\ pc = "failed"
    /\ fetchLog = << 0, 1 >>
    /\ Len(relayLog) >= 1
    /\ Len(checkpoint) = 1

(* ============== properties of the event-partial checkpoint ============= *)
\* C37: the listener goes from one event of a block to the next, or past
\* the last one, only by the save at the end of the for body, which stores
\* the event-partial checkpoint of that event, whether the event was
\* relayed, had no relayer or was skipped by the resume filter.
C37_SavedPerEvent ==
    [][ /\ (pc' = "event" /\ idx' # idx /\ pc # "fetch") =>
              /\ pc = "save"
              /\ idx' = idx + 1
              /\ events' = events
              /\ checkpoint' = << SyncCheckpoint(events[idx].id.block_num,
                                                 events[idx].id.tx_idx,
                                                 events[idx].id.log_idx) >>
        /\ (pc' = "block_done" /\ pc \notin {"fetch", "block_done"}) =>
              /\ pc = "save"
              /\ idx = Len(events)
              /\ checkpoint' = << SyncCheckpoint(events[idx].id.block_num,
                                                 events[idx].id.tx_idx,
                                                 events[idx].id.log_idx) >>
        /\ pc = "event" => pc' \in {"event", "relay", "save", "init"}
        /\ pc = "relay" => pc' \in {"relay", "save", "failed", "init"}
      ]_vars

\* C37 witness: a block of two events is through its for loop, the first
\* event was not relayed in this run, the second was, and the stored
\* checkpoint is the event-partial checkpoint of the second.
C37_Witness ==
    /\ pc = "block_done"
    /\ Len(events) = 2
    /\ relayLog = << events[2].id >>
    /\ checkpoint = << EventCheckpoint(events[2]) >>
    /\ calls = 1

(* ============== properties of the checkpoint at a cycle top ============ *)
\* at the top of a cycle, and when sync has returned Ok: nothing was fetched
\* in this run and the checkpoint is the one found at startup, or the
\* checkpoint is block-complete(next_block - 1)
AtCycleTop ==
    pc \in {"top", "stopped"} =>
        IF fetchLog = << >>
        THEN /\ checkpoint = resumed
             /\ block_number_to_sync = InitialBlock(resumed, start_block)
        ELSE /\ checkpoint = << from_block_num(block_number_to_sync - 1) >>
             /\ fetchLog[Len(fetchLog)] = block_number_to_sync - 1

\* C36: every cycle top of a run finds the stored checkpoint either as it
\* was at startup, with no block completed yet, or equal to
\* block-complete(next_block - 1); next_block changes only by +1 in the step
\* that saves that block-complete checkpoint; so at Stopped the stored
\* checkpoint is no event-partial checkpoint of this run.
C36_CheckpointAtCycleTop ==
    [][ /\ AtCycleTop'
        /\ (block_number_to_sync' # block_number_to_sync /\ pc # "init" /\ pc' # "init") =>
              /\ pc = "block_done"
              /\ block_number_to_sync' = block_number_to_sync + 1
              /\ checkpoint' = << from_block_num(block_number_to_sync) >>
        /\ pc' = "stopped" =>
              \/ checkpoint' = resumed'
              \/ Len(checkpoint') = 1 /\ just_block_num(checkpoint'[1])
      ]_vars

\* C36 witness: a cycle top after block 0 with two events was completed:
\* event-partial checkpoints were written on the way and the stored
\* checkpoint is block-complete(0).
C36_Witness ==
    /\ pc = "top"
    /\ fetchLog = << 0 >>
    /\ Len(relayLog) = 2
    /\ block_number_to_sync = 1
    /\ checkpoint = << from_block_num(0) >>
    /\ resumed = << >>

(* =================== properties of the relay lock ====================== *)
\* C40: a thread that waits for the relay lock of a shared substrate
\* relayer eventually holds it, and a thread that holds it eventually gives
\* it up, whether its submission ends with success or with an error.
C40_LockAcquired ==
    \A t \in Threads :
        /\ (threads[t].at = "lock") ~> (relay_lock = t /\ threads[t].at = "submit")
        /\ (relay_lock = t) ~> (relay_lock # t /\ threads[t].at = "idle")

\* C40 witness: a thread holds the lock and submits after a call of another
\* thread has ended with an error.
C40_Witness ==
    /\ pc = "relayers"
    /\ \E t \in Threads : \E u \in Threads :
          /\ t # u
          /\ relay_lock = u
          /\ threads[u].at = "submit"
          /\ threads[t] = Thread("idle", "Other")
====
